---- MODULE Spec2Model ----
(***************************************************************************)
(* A model of the sweetpay SDK's request/response pipeline: the error      *)
(* mappers, the connectors, the validator registry and the mock scope of   *)
(* a resource facade.                                                      *)
(*                                                                         *)
(* Python values are tagged records, so that values of different Python    *)
(* types can be compared: None, str, int, dict, list and opaque objects.   *)
(***************************************************************************)
EXTENDS Integers, Sequences, FiniteSets, TLC

VARIABLES
    call,            \* the arguments of the pure function under check
    ret,             \* its outcome ("pending" until it has run)
    mockdata,        \* facade -> BaseResource.mockdata
    mockexc,         \* facade -> BaseResource.mockexc
    scopes,          \* the open mock_resource() with-blocks, outermost first
    validators,      \* class -> the _validators attribute the class itself has
    dictpath,        \* function object -> its _dictpath attribute
    use_validators,  \* the client's use_validators flag, handed to every facade
    last             \* what the most recent facade step did

vars == <<call, ret, mockdata, mockexc, scopes, validators, dictpath,
          use_validators, last>>

facadeVars == <<mockdata, mockexc, scopes, validators, dictpath,
                use_validators, last>>

-----------------------------------------------------------------------------
(* Python values *)

NoneV == [t |-> "none"]

Absent == [t |-> "absent"]

Str(s) == [t |-> "str", s |-> s]

Num(n) == [t |-> "int", n |-> n]

Obj(id) == [t |-> "obj", id |-> id]

List(l) == [t |-> "list", l |-> l]

\* The keys a mapping of the model can hold.
Keys == {"status", "error", "a", "b"}

\* A dict is a total function on Keys; a key it does not hold maps to Absent.
Dict(f) == [t |-> "dict", d |-> [k \in Keys |-> IF k \in DOMAIN f THEN f[k] ELSE Absent]]

EmptyDict == [t |-> "dict", d |-> [k \in Keys |-> Absent]]

OK_STATUS == Str("OK")

\* Python truth value of a value.
Truthy(v) ==
    CASE v.t = "none" -> FALSE
      [] v.t = "str"  -> v.s # ""
      [] v.t = "int"  -> v.n # 0
      [] v.t = "dict" -> \E k \in Keys : v.d[k] # Absent
      [] v.t = "list" -> Len(v.l) > 0
      [] OTHER        -> TRUE

Ok(v) == [ok |-> TRUE, val |-> v]

Err(e) == [ok |-> FALSE, err |-> e]

Key(k) == [k |-> k]

Idx(i) == [i |-> i]

IsKey(e) == "k" \in DOMAIN e

\* container[e]: a mapping looks the key up (KeyError when it is missing), a
\* list takes an index inside its length (IndexError outside, TypeError for a
\* key), and None, numbers and strings cannot be subscripted with a key.
GetItem(v, e) ==
    CASE v.t = "dict" ->
            IF IsKey(e) /\ e.k \in Keys /\ v.d[e.k] # Absent
            THEN Ok(v.d[e.k]) ELSE Err("KeyError")
      [] v.t = "list" ->
            IF IsKey(e) THEN Err("TypeError")
            ELSE IF e.i < Len(v.l) THEN Ok(v.l[e.i + 1]) ELSE Err("IndexError")
      [] OTHER -> Err("TypeError")

-----------------------------------------------------------------------------
(* errors.py *)

ErrorParams == {"data", "response", "code", "status", "exc"}

\* Mutant: __init__ forgets to store the response.
NewError_NoResponse(cls, kw) ==
    IF DOMAIN kw \subseteq ErrorParams
    THEN [kind |-> "raise", cls |-> cls,
          data     |-> IF "data" \in DOMAIN kw THEN kw.data ELSE NoneV,
          response |-> NoneV,
          code     |-> IF "code" \in DOMAIN kw THEN kw.code ELSE NoneV,
          status   |-> IF "status" \in DOMAIN kw THEN kw.status ELSE NoneV,
          exc      |-> IF "exc" \in DOMAIN kw THEN kw.exc ELSE NoneV]
    ELSE [kind |-> "raise", cls |-> "TypeError"]

\* SweetpayError.__init__(msg, data=None, response=None, code=None,
\* status=None, exc=None), called as cls(msg, **kw): a keyword it does not
\* name is a TypeError, a keyword left out is None.
NewError(cls, kw) ==
    IF DOMAIN kw \subseteq ErrorParams
    THEN [kind |-> "raise", cls |-> cls,
          data     |-> IF "data" \in DOMAIN kw THEN kw.data ELSE NoneV,
          response |-> IF "response" \in DOMAIN kw THEN kw.response ELSE NoneV,
          code     |-> IF "code" \in DOMAIN kw THEN kw.code ELSE NoneV,
          status   |-> IF "status" \in DOMAIN kw THEN kw.status ELSE NoneV,
          exc      |-> IF "exc" \in DOMAIN kw THEN kw.exc ELSE NoneV]
    ELSE [kind |-> "raise", cls |-> "TypeError"]

Return(v) == [kind |-> "return", value |-> v]

\* The exception classes that derive from SweetpayError.
SweetpayErrors ==
    {"SweetpayError", "FailureStatusError", "ProxyError", "BadDataError",
     "InvalidParameterError", "InternalServerError", "UnauthorizedError",
     "NotFoundError", "MethodNotAllowedError", "UnderMaintenanceError",
     "RequestError", "TimeoutError"}

-----------------------------------------------------------------------------
(* resources.py: Resource._check_for_errors *)

\* Mutant: a bare string is taken as the status, as post_request does.
ResourceStatus_StrIsStatus(data) ==
    IF data.t = "str" THEN data
    ELSE LET r == GetItem(data, Key("status"))
         IN IF r.ok THEN r.val ELSE NoneV

\* status = data["status"], None on KeyError or TypeError.
ResourceStatus(data) ==
    LET r == GetItem(data, Key("status"))
    IN IF r.ok THEN r.val ELSE NoneV

ResourceErrorClass(code) ==
    CASE code = Num(200) -> "FailureStatusError"
      [] code = Num(400) -> "BadDataError"
      [] code = Num(401) -> "UnauthorizedError"
      [] code = Num(404) -> "NotFoundError"
      [] code = Num(405) -> "MethodNotAllowedError"
      [] code = Num(422) -> "InvalidParameterError"
      [] code = Num(500) -> "InternalServerError"
      [] code = Num(502) -> "ProxyError"
      [] code = Num(503) -> "UnderMaintenanceError"
      [] OTHER           -> "SweetpayError"

\* Mutant: the success branch returns the status instead of the data.
ResourceCheckForErrors_ReturnsStatus(code, data, response) ==
    LET status == ResourceStatus(data)
        exc_kwargs == [code |-> code, response |-> response, data |-> data,
                       status |-> status]
    IN IF code = Num(200) /\ status = OK_STATUS
       THEN Return(status)
       ELSE NewError(ResourceErrorClass(code), exc_kwargs)

ResourceCheckForErrors(code, data, response) ==
    LET status == ResourceStatus(data)
        exc_kwargs == [code |-> code, response |-> response, data |-> data,
                       status |-> status]
    IN IF code = Num(200) /\ status = OK_STATUS
       THEN Return(data)
       ELSE NewError(ResourceErrorClass(code), exc_kwargs)

-----------------------------------------------------------------------------
(* base.py: ResponseClass and BaseResource.check_for_errors *)

ResponseClass(response, code, data, status) ==
    [response |-> response, code |-> code, data |-> data, status |-> status]

status_ok(respcls) == respcls.status = OK_STATUS

\* Mutant: the table without its 405 and 502 rows.
BaseErrorClass_No405No502(code) ==
    CASE code = Num(400) -> "BadDataError"
      [] code = Num(401) -> "UnauthorizedError"
      [] code = Num(404) -> "NotFoundError"
      [] code = Num(422) -> "InvalidParameterError"
      [] code = Num(500) -> "InternalServerError"
      [] code = Num(503) -> "UnderMaintenanceError"
      [] OTHER           -> "SweetpayError"

\* The class raised for a code other than 200.
BaseErrorClass(code) ==
    CASE code = Num(400) -> "BadDataError"
      [] code = Num(401) -> "UnauthorizedError"
      [] code = Num(404) -> "NotFoundError"
      [] code = Num(405) -> "MethodNotAllowedError"
      [] code = Num(422) -> "InvalidParameterError"
      [] code = Num(500) -> "InternalServerError"
      [] code = Num(502) -> "ProxyError"
      [] code = Num(503) -> "UnderMaintenanceError"
      [] OTHER           -> "SweetpayError"

\* hasattr(data, "get"): of the values of the model only a dict has it.
HasGet(data) == data.t = "dict"

\* data.get("error", None)
GetError(data) == IF data.d["error"] # Absent THEN data.d["error"] ELSE NoneV

\* Mutant: every response with code 200 is returned, whatever its status.
check_for_errors_Any200(respcls) ==
    LET code == respcls.code
        status == respcls.status
        data == respcls.data
        exc_kwargs == [code |-> code, response |-> respcls.response,
                       status |-> status, data |-> data]
    IN IF code = Num(200)
       THEN Return(respcls)
       ELSE LET status2 == IF status = NoneV /\ HasGet(data)
                           THEN GetError(data) ELSE status
            IN NewError(BaseErrorClass(code),
                        [exc_kwargs EXCEPT !.status = status2])

check_for_errors(respcls) ==
    LET code == respcls.code
        status == respcls.status
        data == respcls.data
        exc_kwargs == [code |-> code, response |-> respcls.response,
                       status |-> status, data |-> data]
    IN IF code = Num(200)
       THEN IF status_ok(respcls)
            THEN Return(respcls)
            ELSE NewError("FailureStatusError", exc_kwargs)
       ELSE LET status2 == IF status = NoneV /\ HasGet(data)
                           THEN GetError(data) ELSE status
            IN NewError(BaseErrorClass(code),
                        [exc_kwargs EXCEPT !.status = status2])

-----------------------------------------------------------------------------
(* The error mappers as pure functions: Init draws the arguments. *)

MapperCodes ==
    {Num(200), Num(201), Num(400), Num(401), Num(404), Num(405), Num(418),
     Num(422), Num(500), Num(502), Num(503), Num(505)}

MapperData ==
    {NoneV, Num(123), Str("123"), Str("OK"), EmptyDict, List(<<>>),
     List(<<Str("OK")>>),
     Dict([status |-> Str("OK")]),
     Dict([status |-> Str("SOME_STATUS")]),
     Dict([status |-> NoneV]),
     Dict([error |-> Str("SOME_ERROR")]),
     Dict([status |-> Str("OK"), a |-> Str("the value")])}

MapperStatuses == {NoneV, Str("OK"), Str("SOME_STATUS")}

MapperResponses == {NoneV, Obj("response")}

Pending == [kind |-> "pending"]

Idle == [fn |-> "none"]

FacadeIdle ==
    /\ mockdata = [f \in {} |-> NoneV]
    /\ mockexc = [f \in {} |-> NoneV]
    /\ scopes = <<>>
    /\ validators = [c \in {} |-> <<>>]
    /\ dictpath = [g \in {} |-> <<>>]
    /\ use_validators = TRUE
    /\ last = [op |-> "none"]

InitMapper ==
    /\ \E code \in MapperCodes, data \in MapperData,
          response \in MapperResponses, status \in MapperStatuses :
          call = [fn |-> "mapper", code |-> code, data |-> data,
                  response |-> response, status |-> status]
    /\ ret = Pending
    /\ FacadeIdle

\* Resource._check_for_errors(code, data, response)
CallResourceCheck ==
    /\ call.fn = "mapper"
    /\ ret = Pending
    /\ ret' = [kind |-> "done", variant |-> "Resource",
               out |-> ResourceCheckForErrors(call.code, call.data, call.response)]
    /\ UNCHANGED <<call, facadeVars>>

\* BaseResource.check_for_errors(respcls)
CallBaseCheck ==
    /\ call.fn = "mapper"
    /\ ret = Pending
    /\ ret' = [kind |-> "done", variant |-> "BaseResource",
               out |-> check_for_errors(
                   ResponseClass(call.response, call.code, call.data, call.status))]
    /\ UNCHANGED <<call, facadeVars>>

NextMapper == CallResourceCheck \/ CallBaseCheck

SpecMapper == InitMapper /\ [][NextMapper]_vars

-----------------------------------------------------------------------------
(* The connectors: base.py SweetpayConnector.make_request, connector.py    *)
(* Connector.send_request and utils.py BaseClient.make_request.            *)

Methods == {"GET", "get", "POST", "Post", "PUT"}

\* str.upper() and str.lower() on the method names of the model.
Upper(m) == CASE m \in {"GET", "get"} -> "GET"
              [] m \in {"POST", "Post"} -> "POST"
              [] OTHER -> "PUT"

Lower(m) == CASE m \in {"GET", "get"} -> "get"
              [] m \in {"POST", "Post"} -> "post"
              [] OTHER -> "put"

\* The request parameters: none, a mapping the JSON encoder accepts, or a
\* mapping holding a value the encoder's default() rejects.
ParamKinds == {"none", "encodable", "unencodable"}

\* What session.request() does: it raises requests.Timeout, raises another
\* requests.RequestException, or returns a response whose body does or does
\* not decode as JSON.
TransportOutcomes ==
    {[kind |-> "timeout", exc |-> Obj("requests.Timeout")],
     [kind |-> "request_error", exc |-> Obj("requests.ConnectionError")]}
    \cup
    [kind : {"response"}, resp : {Obj("response")},
     status_code : {Num(200), Num(404), Num(500)},
     json : {Err("ValueError"), Ok(Str("OK")), Ok(Str("")), Ok(NoneV),
             Ok(Num(123)), Ok(List(<<Dict([status |-> Str("OK")])>>)),
             Ok(Dict([status |-> Str("OK")])),
             Ok(Dict([status |-> Str("SOME_STATUS"), a |-> Str("the value")])),
             Ok(Dict([error |-> Str("SOME_ERROR")]))}]

\* session.request(...) wrapped in the try/except of base.py and connector.py.
SendOrRaise(transport) ==
    CASE transport.kind = "timeout" ->
            NewError("TimeoutError",
                     [code |-> NoneV, status |-> NoneV, response |-> NoneV,
                      exc |-> transport.exc])
      [] transport.kind = "request_error" ->
            NewError("RequestError",
                     [code |-> NoneV, status |-> NoneV, response |-> NoneV,
                      exc |-> transport.exc])
      [] OTHER -> Return(transport.resp)

\* The text of a response body that is not JSON.
RawText == Str("<html>Bad Gateway</html>")

\* Connector.decode_data(rawdata): json.loads(rawdata), and rawdata itself
\* when it does not decode.
decode_data(transport) ==
    IF transport.json.ok THEN transport.json.val ELSE RawText

\* Mutant: the text of a body that does not decode is kept as the data.
DecodeOrNone_RawText(transport) ==
    IF transport.json.ok THEN transport.json.val ELSE RawText

\* resp.json(), None when the body does not decode.
DecodeOrNone(transport) ==
    IF transport.json.ok THEN transport.json.val ELSE NoneV

\* SweetpayConnector.make_request(url, method, params); sent tells whether
\* session.request() was called and wire the method it was called with.
SweetpayConnectorMakeRequest(method, params, transport) ==
    LET m == Upper(method)
    IN IF m \notin {"GET", "POST"}
       THEN [out |-> [kind |-> "raise", cls |-> "ValueError"], sent |-> FALSE,
             wire |-> ""]
       ELSE IF m = "POST" /\ params = "unencodable"
       THEN [out |-> [kind |-> "raise", cls |-> "TypeError"], sent |-> FALSE,
             wire |-> ""]
       ELSE IF transport.kind # "response"
       THEN [out |-> SendOrRaise(transport), sent |-> TRUE, wire |-> m]
       ELSE [out |-> Return(ResponseClass(transport.resp, transport.status_code,
                                          DecodeOrNone(transport), NoneV)),
             sent |-> TRUE, wire |-> m]

\* Connector.send_request(method, url, reqkwargs)
ConnectorSendRequest(method, transport) ==
    [out |-> SendOrRaise(transport), sent |-> TRUE, wire |-> method]

\* Connector.encode_data(method, params): the body of the request, before
\* anything is sent. The method is compared as it was given.
encode_data(method, params) ==
    IF method = "GET" THEN Return(NoneV)
    ELSE IF method = "POST"
    THEN IF params = "none" THEN Return(EmptyDict)
         ELSE IF params = "unencodable"
         THEN [kind |-> "raise", cls |-> "TypeError"]
         ELSE Return(Str("json"))
    ELSE [kind |-> "raise", cls |-> "ValueError"]

\* The try/except around session.request() in BaseClient.make_request: the
\* TimeoutError is built with the keyword respone.
BaseClientSendOrRaise(transport) ==
    CASE transport.kind = "timeout" ->
            NewError("TimeoutError",
                     [code |-> NoneV, status |-> NoneV, respone |-> NoneV,
                      exc |-> transport.exc])
      [] transport.kind = "request_error" ->
            NewError("RequestError",
                     [code |-> NoneV, status |-> NoneV, response |-> NoneV,
                      exc |-> transport.exc])
      [] OTHER -> Return(transport.resp)

\* respschema.load(respdata).data: the fields of the schema found in a
\* mapping, and no field for anything else.
SchemaLoad(respdata) == IF respdata.t = "dict" THEN respdata ELSE EmptyDict

\* BaseClient.make_request(url, method, respschema, reqschema, params)
BaseClientMakeRequest(method, params, transport) ==
    LET m == Lower(method)
    IN IF m \notin {"get", "post"}
       THEN [out |-> [kind |-> "raise", cls |-> "ValueError"], sent |-> FALSE,
             wire |-> ""]
       ELSE IF m = "post" /\ params = "unencodable"
       THEN [out |-> [kind |-> "raise", cls |-> "InvalidArgumentError"],
             sent |-> FALSE, wire |-> ""]
       ELSE IF transport.kind # "response"
       THEN [out |-> BaseClientSendOrRaise(transport), sent |-> TRUE, wire |-> m]
       ELSE IF ~transport.json.ok
       THEN [out |-> Return(ResponseClass(transport.resp, transport.status_code,
                                          NoneV, NoneV)),
             sent |-> TRUE, wire |-> m]
       ELSE LET respdata == transport.json.val
                data == SchemaLoad(respdata)
                found == data.d["status"] # Absent
            IN [out |-> Return(ResponseClass(
                            transport.resp, transport.status_code,
                            IF ~found /\ ~Truthy(data) THEN respdata ELSE data,
                            IF found THEN data.d["status"] ELSE NoneV)),
                sent |-> TRUE, wire |-> m]

\* Mutant: a string body is left in place and gives no status.
post_request_NoStringCase(resp) ==
    LET r == GetItem(resp.data, Key("status"))
    IN [resp EXCEPT !.status = IF r.ok THEN r.val ELSE NoneV]

\* BaseResource.post_request(resp)
post_request(resp) ==
    IF resp.data.t = "str"
    THEN [resp EXCEPT !.status = resp.data, !.data = NoneV]
    ELSE LET r == GetItem(resp.data, Key("status"))
         IN [resp EXCEPT !.status = IF r.ok THEN r.val ELSE NoneV]

InitConn ==
    /\ \E method \in Methods, params \in ParamKinds,
          transport \in TransportOutcomes :
          call = [fn |-> "connector", method |-> method, params |-> params,
                  transport |-> transport]
    /\ ret = Pending
    /\ FacadeIdle

CallSweetpayConnector ==
    /\ call.fn = "connector"
    /\ ret = Pending
    /\ LET r == SweetpayConnectorMakeRequest(call.method, call.params, call.transport)
       IN ret' = [kind |-> "done", variant |-> "SweetpayConnector",
                  out |-> r.out, sent |-> r.sent, wire |-> r.wire]
    /\ UNCHANGED <<call, facadeVars>>

CallConnectorSend ==
    /\ call.fn = "connector"
    /\ ret = Pending
    /\ LET r == ConnectorSendRequest(call.method, call.transport)
       IN ret' = [kind |-> "done", variant |-> "Connector",
                  out |-> r.out, sent |-> r.sent, wire |-> r.wire]
    /\ UNCHANGED <<call, facadeVars>>

CallBaseClient ==
    /\ call.fn = "connector"
    /\ ret = Pending
    /\ LET r == BaseClientMakeRequest(call.method, call.params, call.transport)
       IN ret' = [kind |-> "done", variant |-> "BaseClient",
                  out |-> r.out, sent |-> r.sent, wire |-> r.wire]
    /\ UNCHANGED <<call, facadeVars>>

\* Connector.encode_data(method, params), which runs before send_request.
CallEncodeData ==
    /\ call.fn = "connector"
    /\ ret = Pending
    /\ ret' = [kind |-> "encoded", variant |-> "Connector",
               out |-> encode_data(call.method, call.params),
               sent |-> FALSE, wire |-> ""]
    /\ UNCHANGED <<call, facadeVars>>

\* Connector.decode_data(rawdata) on the body of a response received.
CallDecodeData ==
    /\ call.fn = "connector"
    /\ ret = Pending
    /\ call.transport.kind = "response"
    /\ ret' = [kind |-> "decoded", variant |-> "Connector",
               out |-> Return(decode_data(call.transport)),
               sent |-> TRUE, wire |-> call.method]
    /\ UNCHANGED <<call, facadeVars>>

\* resp = self.post_request(respcls) on what SweetpayConnector.make_request
\* returned, and check_for_errors on the result, as BaseResource.make_request
\* does when no validator is registered.
CallPostRequest ==
    /\ call.fn = "connector"
    /\ ret.kind = "done"
    /\ ret.variant = "SweetpayConnector"
    /\ ret.out.kind = "return"
    /\ ret' = [kind |-> "posted", variant |-> ret.variant, out |-> ret.out,
               sent |-> ret.sent, wire |-> ret.wire,
               post |-> post_request(ret.out.value),
               checked |-> check_for_errors(post_request(ret.out.value))]
    /\ UNCHANGED <<call, facadeVars>>

NextConn ==
    CallSweetpayConnector \/ CallConnectorSend \/ CallBaseClient
        \/ CallPostRequest \/ CallEncodeData \/ CallDecodeData

SpecConn == InitConn /\ [][NextConn]_vars

-----------------------------------------------------------------------------
(* The request encoder: SweetpayJSONEncoder.default of base.py and         *)
(* connector.py.                                                           *)

\* The values handed to the encoder besides the ones of Python's JSON
\* types: naive datetime.datetime and datetime.date objects, Decimal objects
\* given by their coefficient and exponent (Decimal("10.50") has the
\* coefficient 1050 and the exponent -2), and objects of other classes.
DateTime(y, m, d, h, mi, sec, us) ==
    [t |-> "datetime", y |-> y, m |-> m, d |-> d, h |-> h, mi |-> mi,
     sec |-> sec, us |-> us]

Date(y, m, d) == [t |-> "date", y |-> y, m |-> m, d |-> d]

Decimal(coeff, exp) == [t |-> "decimal", coeff |-> coeff, exp |-> exp]

\* isinstance(obj, cls): datetime.datetime is a subclass of datetime.date.
IsInstance(obj, cls) ==
    \/ obj.t = cls
    \/ obj.t = "datetime" /\ cls = "date"

\* A number in at least n digits, zero-padded (n is 2 or 6 here).
Pad(n, width) ==
    LET digits == ToString(n)
        zeros == [k \in 0..6 |-> CASE k = 0 -> "" [] k = 1 -> "0" [] k = 2 -> "00"
                                   [] k = 3 -> "000" [] k = 4 -> "0000"
                                   [] k = 5 -> "00000" [] OTHER -> "000000"]
    IN IF Len(digits) >= width THEN digits
       ELSE zeros[width - Len(digits)] \o digits

\* obj.strftime(DATE_FORMAT) with DATE_FORMAT = "%Y-%m-%d", for the years of
\* four digits.
strftime(obj) == ToString(obj.y) \o "-" \o Pad(obj.m, 2) \o "-" \o Pad(obj.d, 2)

\* datetime.isoformat() of a naive datetime: the microseconds are written
\* when they are not zero.
isoformat(obj) ==
    strftime(obj) \o "T" \o Pad(obj.h, 2) \o ":" \o Pad(obj.mi, 2) \o ":"
        \o Pad(obj.sec, 2)
        \o (IF obj.us = 0 THEN "" ELSE "." \o Pad(obj.us, 6))

\* 10 ** n for the exponents of the model.
Pow10(n) == CASE n = 0 -> 1 [] n = 1 -> 10 [] n = 2 -> 100 [] OTHER -> 1000

\* str(obj) of a non-negative Decimal whose exponent is between -3 and 0:
\* every digit of the coefficient is written, trailing zeros included.
DecimalStr(obj) ==
    IF obj.exp = 0 THEN ToString(obj.coeff)
    ELSE ToString(obj.coeff \div Pow10(-obj.exp)) \o "."
            \o Pad(obj.coeff % Pow10(-obj.exp), -obj.exp)

\* json.JSONEncoder.default(obj): raises TypeError.
JSONEncoderDefault(obj) == [kind |-> "raise", cls |-> "TypeError"]

\* Mutant: the date rule is tried before the datetime rule.
default_DateFirst(obj) ==
    IF IsInstance(obj, "date") THEN Return(Str(strftime(obj)))
    ELSE IF IsInstance(obj, "datetime") THEN Return(Str(isoformat(obj)))
    ELSE IF IsInstance(obj, "decimal") THEN Return(Str(DecimalStr(obj)))
    ELSE JSONEncoderDefault(obj)

\* SweetpayJSONEncoder.default(obj)
default(obj) ==
    IF IsInstance(obj, "datetime") THEN Return(Str(isoformat(obj)))
    ELSE IF IsInstance(obj, "date") THEN Return(Str(strftime(obj)))
    ELSE IF IsInstance(obj, "decimal") THEN Return(Str(DecimalStr(obj)))
    ELSE JSONEncoderDefault(obj)

\* What the encoder turns one value of the parameters into: a value of a
\* JSON type is written as it is, and default() is asked about any other.
EncodeValue(obj) ==
    IF obj.t \in {"none", "str", "int"} THEN Return(obj) ELSE default(obj)

\* The values the encoder is tried on.
EncoderDates == {Date(y, m, d) : y \in {1999, 2017}, m \in {1, 12}, d \in {5, 31}}

EncoderTimes ==
    {[h |-> 0, mi |-> 0, sec |-> 0, us |-> 0],
     [h |-> 9, mi |-> 5, sec |-> 7, us |-> 0],
     [h |-> 23, mi |-> 59, sec |-> 59, us |-> 1500]}

EncoderValues ==
    EncoderDates
    \cup {DateTime(dt.y, dt.m, dt.d, tm.h, tm.mi, tm.sec, tm.us) :
             dt \in EncoderDates, tm \in EncoderTimes}
    \cup {Decimal(c, e) : c \in {0, 5, 105, 1050, 12345}, e \in {-3, -2, -1, 0}}
    \cup {Obj("set"), Obj("object"), Obj("bytes"), Obj("timedelta")}
    \cup {NoneV, Str("10.50"), Num(10)}

\* The encoders of base.py and connector.py.
Encoders == {"base", "connector"}

InitEncode ==
    /\ \E enc \in Encoders, obj \in EncoderValues :
          call = [fn |-> "encoder", enc |-> enc, obj |-> obj]
    /\ ret = Pending
    /\ FacadeIdle

\* SweetpayJSONEncoder().encode(params) reaches the value call.obj.
CallEncode ==
    /\ call.fn = "encoder"
    /\ ret = Pending
    /\ ret' = [kind |-> "done", out |-> EncodeValue(call.obj)]
    /\ UNCHANGED <<call, facadeVars>>

NextEncode == CallEncode

SpecEncode == InitEncode /\ [][NextEncode]_vars

-----------------------------------------------------------------------------
(* The validator registry: base.py BaseResource.validates, validate_data,  *)
(* clear_validators, and the helpers getfromdict and setindict of utils.   *)

\* The resource classes, named by their namespace (SubscriptionV1,
\* CreditcheckV2).
ResourceClasses == {"subscription", "creditcheck"}

\* The keys of _validators: the resource classes and BaseResource, the key
\* of the validators registered for all resources.
Classes == ResourceClasses \cup {"BaseResource"}

\* The facades of the client whose operations are followed: an instance of
\* SubscriptionV1.
Facades == {"subscription"}

\* The validator functions a program registers.
Fns == {"somefunc", "validate_created_at"}

\* The strings decode_datetime parses.
DateStrings == {"2017-01-01T00:00:00"}

\* decode_datetime(value): a datetime for a string in the expected format,
\* ValueError for another string, TypeError for anything but a string.
decode_datetime(v) ==
    IF v.t # "str" THEN [ok |-> FALSE, cls |-> "TypeError"]
    ELSE IF v.s \in DateStrings
         THEN [ok |-> TRUE, val |-> [t |-> "datetime", of |-> v.s], same |-> FALSE]
         ELSE [ok |-> FALSE, cls |-> "ValueError"]

\* processor(value): what a registered function returns (same tells whether
\* it is the very object it was given) or the exception it raises.
\*   somefunc: return "changed value"
\*   validate_created_at: if value: return decode_datetime(value); return value
Processor(fn, v) ==
    CASE fn = "somefunc" ->
            [ok |-> TRUE, val |-> Str("changed value"), same |-> FALSE]
      [] fn = "validate_created_at" ->
            IF Truthy(v) THEN decode_datetime(v)
            ELSE [ok |-> TRUE, val |-> v, same |-> TRUE]

RECURSIVE getfromdict(_, _)
\* getfromdict(data, path): data[path[0]][path[1]]..., or the exception of
\* the first subscription that fails.
getfromdict(data, path) ==
    IF path = <<>> THEN Ok(data)
    ELSE LET r == GetItem(data, Head(path))
         IN IF r.ok THEN getfromdict(r.val, Tail(path)) ELSE r

\* container[e] = value, for a container that holds e.
SetItem(v, e, value) ==
    IF v.t = "dict"
    THEN [v EXCEPT !.d[e.k] = value]
    ELSE [v EXCEPT !.l[e.i + 1] = value]

RECURSIVE setindict(_, _, _)
\* setindict(data, path, value): getfromdict(data, path[:-1])[path[-1]] = value,
\* as the content data has afterwards.
setindict(data, path, value) ==
    IF Len(path) = 1 THEN SetItem(data, path[1], value)
    ELSE SetItem(data, path[1],
                 setindict(GetItem(data, path[1]).val, Tail(path), value))

\* A defaultdict(list) nothing has been appended to.
NoValidators == [k \in Classes |-> <<>>]

\* cls._validators: the attribute of the class itself when it has one, and
\* the one of BaseResource, which every resource class inherits, otherwise.
ClassValidators(reg, cls) ==
    IF reg[cls].own THEN reg[cls].d ELSE reg["BaseResource"].d

\* Mutant: the validators for all resources are chained first.
ChainedValidators_BaseFirst(reg, cls) ==
    ClassValidators(reg, cls)["BaseResource"] \o ClassValidators(reg, cls)[cls]

\* chain(cls._validators[cls], cls._validators[BaseResource])
ChainedValidators(reg, cls) ==
    ClassValidators(reg, cls)[cls] \o ClassValidators(reg, cls)["BaseResource"]

\* Mutant: the new value is stored one level up, at path[:-1].
ApplyEntry_SetsParent(st, fn, path) ==
    LET got == getfromdict(st.cur, path)
    IN IF ~got.ok
       THEN IF got.err \in {"KeyError", "TypeError"}
            THEN [st EXCEPT !.steps = Append(@, [fn |-> fn, path |-> path,
                        before |-> st.cur, after |-> st.cur, how |-> "skipped"])]
            ELSE [st EXCEPT !.raised = got.err,
                        !.steps = Append(@, [fn |-> fn, path |-> path,
                        before |-> st.cur, after |-> st.cur, how |-> "raised"])]
       ELSE LET res == Processor(fn, got.val)
            IN IF ~res.ok
               THEN [st EXCEPT !.raised = res.cls,
                        !.steps = Append(@, [fn |-> fn, path |-> path,
                        before |-> st.cur, after |-> st.cur, how |-> "raised",
                        arg |-> got.val])]
               ELSE LET new == IF Len(path) <= 1 THEN res.val
                               ELSE setindict(st.cur, SubSeq(path, 1, Len(path) - 1),
                                              res.val)
                    IN [cur |-> new,
                        orig |-> IF st.aliased /\ path # <<>> THEN new ELSE st.orig,
                        aliased |-> st.aliased /\ (path # <<>> \/ res.same),
                        raised |-> st.raised,
                        steps |-> Append(st.steps, [fn |-> fn, path |-> path,
                                  before |-> st.cur, after |-> new,
                                  how |-> "applied", arg |-> got.val,
                                  result |-> res.val])]

\* Mutant: with an empty path the result of the transform is dropped.
ApplyEntry_EmptyPathIgnored(st, fn, path) ==
    LET got == getfromdict(st.cur, path)
    IN IF ~got.ok
       THEN IF got.err \in {"KeyError", "TypeError"}
            THEN [st EXCEPT !.steps = Append(@, [fn |-> fn, path |-> path,
                        before |-> st.cur, after |-> st.cur, how |-> "skipped"])]
            ELSE [st EXCEPT !.raised = got.err,
                        !.steps = Append(@, [fn |-> fn, path |-> path,
                        before |-> st.cur, after |-> st.cur, how |-> "raised"])]
       ELSE LET res == Processor(fn, got.val)
            IN IF ~res.ok
               THEN [st EXCEPT !.raised = res.cls,
                        !.steps = Append(@, [fn |-> fn, path |-> path,
                        before |-> st.cur, after |-> st.cur, how |-> "raised",
                        arg |-> got.val])]
               ELSE LET new == IF path = <<>> THEN st.cur
                               ELSE setindict(st.cur, path, res.val)
                    IN [cur |-> new,
                        orig |-> IF st.aliased /\ path # <<>> THEN new ELSE st.orig,
                        aliased |-> st.aliased /\ (path # <<>> \/ res.same),
                        raised |-> st.raised,
                        steps |-> Append(st.steps, [fn |-> fn, path |-> path,
                                  before |-> st.cur, after |-> new,
                                  how |-> "applied", arg |-> got.val,
                                  result |-> res.val])]

\* One turn of the loop of validate_data, for the function fn whose _dictpath
\* is path. st.cur is the local variable data; st.orig is the content of the
\* object validate_data was given, which setindict rewrites in place for as
\* long as data still names it (st.aliased); st.raised is the exception that
\* left the loop, if any; st.steps records what each turn did.
ApplyEntry(st, fn, path) ==
    LET got == getfromdict(st.cur, path)
    IN IF ~got.ok
       THEN IF got.err \in {"KeyError", "TypeError"}
            THEN [st EXCEPT !.steps = Append(@, [fn |-> fn, path |-> path,
                        before |-> st.cur, after |-> st.cur, how |-> "skipped"])]
            ELSE [st EXCEPT !.raised = got.err,
                        !.steps = Append(@, [fn |-> fn, path |-> path,
                        before |-> st.cur, after |-> st.cur, how |-> "raised"])]
       ELSE LET res == Processor(fn, got.val)
            IN IF ~res.ok
               THEN [st EXCEPT !.raised = res.cls,
                        !.steps = Append(@, [fn |-> fn, path |-> path,
                        before |-> st.cur, after |-> st.cur, how |-> "raised",
                        arg |-> got.val])]
               ELSE LET new == IF path = <<>> THEN res.val
                               ELSE setindict(st.cur, path, res.val)
                    IN [cur |-> new,
                        orig |-> IF st.aliased /\ path # <<>> THEN new ELSE st.orig,
                        aliased |-> st.aliased /\ (path # <<>> \/ res.same),
                        raised |-> st.raised,
                        steps |-> Append(st.steps, [fn |-> fn, path |-> path,
                                  before |-> st.cur, after |-> new,
                                  how |-> "applied", arg |-> got.val,
                                  result |-> res.val])]

RECURSIVE ValidateLoop(_, _, _)
\* for processor in validators: ..., left at the first exception.
ValidateLoop(st, fns, paths) ==
    IF fns = <<>> \/ st.raised # "" THEN st
    ELSE ValidateLoop(ApplyEntry(st, Head(fns), paths[Head(fns)]), Tail(fns), paths)

\* cls.validate_data(data) with the registry reg and the _dictpath attributes
\* paths: the value returned (or the exception raised), the content the
\* object passed in has afterwards, and the record of the loop's turns.
validate_data(reg, paths, cls, data) ==
    LET st == ValidateLoop([cur |-> data, orig |-> data, aliased |-> TRUE,
                            raised |-> "", steps |-> <<>>],
                           ChainedValidators(reg, cls), paths)
    IN [out |-> IF st.raised = "" THEN Return(st.cur)
                ELSE [kind |-> "raise", cls |-> st.raised],
        orig |-> st.orig,
        steps |-> st.steps]

\* The paths a program registers validators for.
Paths ==
    {<<>>, <<Key("a")>>, <<Key("b")>>, <<Key("a"), Key("b")>>,
     <<Key("a"), Idx(0)>>}

\* The paths registered while facades are in use.
FacadePaths == {<<>>, <<Key("a")>>, <<Key("a"), Key("b")>>}

\* The registry holds at most MaxEntries functions in all.
MaxEntries == 2

DictEntries(d) == Len(d["subscription"]) + Len(d["creditcheck"])
                  + Len(d["BaseResource"])

Entries(reg) == DictEntries(reg["subscription"].d)
                + DictEntries(reg["creditcheck"].d)
                + DictEntries(reg["BaseResource"].d)

\* The functions some _validators attribute holds.
Registered(reg) ==
    {reg[c].d[k][i] : <<c, k, i>> \in
        {x \in Classes \X Classes \X (1..MaxEntries + 1) :
            x[3] <= Len(reg[x[1]].d[x[2]])}}

\* The bodies validate_data is given.
ValidateBodies ==
    {Dict([a |-> Dict([b |-> Str("the value")]), status |-> Str("OK")]),
     Dict([a |-> Str("2017-01-01T00:00:00"), b |-> Str("the value")]),
     Dict([a |-> List(<<Str("the value"), Num(1)>>), b |-> NoneV]),
     Dict([a |-> List(<<>>)]),
     List(<<Dict([a |-> Str("the value")])>>),
     Str("the value")}

\* _validators = defaultdict(list) in the body of BaseResource, and in no
\* other class.
RegistryEmpty ==
    /\ validators = [c \in Classes |->
                        [own |-> c = "BaseResource", d |-> NoValidators]]
    /\ dictpath = [g \in Fns |-> <<>>]

InitValidate ==
    /\ \E cls \in ResourceClasses, data \in ValidateBodies :
          call = [fn |-> "validate_data", cls |-> cls, data |-> data]
    /\ ret = Pending
    /\ mockdata = [f \in {} |-> NoneV]
    /\ mockexc = [f \in {} |-> NoneV]
    /\ scopes = <<>>
    /\ RegistryEmpty
    /\ use_validators = TRUE
    /\ last = [op |-> "none"]

\* sweetpay.validates(namespace, version, path)(func), or validates(path)(func)
\* for cls = BaseResource: func._dictpath = path; _validators[cls].append(func)
RegisterValidator(cls, path, fn) ==
    /\ validators' =
          IF validators[cls].own
          THEN [validators EXCEPT ![cls].d[cls] = Append(@, fn)]
          ELSE [validators EXCEPT !["BaseResource"].d[cls] = Append(@, fn)]
    /\ dictpath' = [dictpath EXCEPT ![fn] = path]

\* cls.clear_validators(): cls._validators = defaultdict(list), an
\* assignment to the attribute of cls itself. sweetpay.clear_validators()
\* is BaseResource.clear_validators(). A function no attribute holds any
\* longer keeps its _dictpath, which nothing reads before the next
\* registration of the function overwrites it; it is put back to the value
\* it starts with.
ClearValidators(cls) ==
    /\ validators' = [validators EXCEPT ![cls] = [own |-> TRUE, d |-> NoValidators]]
    /\ dictpath' = [g \in Fns |->
                       IF g \in Registered(validators') THEN dictpath[g] ELSE <<>>]
    /\ last' = [op |-> "clear_validators"]
    /\ UNCHANGED <<call, ret, mockdata, mockexc, scopes, use_validators>>

\* SweetpayClient._RESOURCE_MAPPER, for the resource classes of the model
\* (the entry of CheckoutSessionV1 is like the two others): the keys
\* (namespace, version) and the class each names.
RESOURCE_MAPPER ==
    {[key |-> <<Str("subscription"), Num(1)>>, cls |-> "subscription"],
     [key |-> <<Str("creditcheck"), Num(2)>>, cls |-> "creditcheck"],
     [key |-> <<NoneV, NoneV>>, cls |-> "BaseResource"]}

\* Mutant: a key the mapper does not hold falls back on BaseResource.
get_resource_cls_Fallback(namespace, version) ==
    IF \E m \in RESOURCE_MAPPER : m.key = <<namespace, version>>
    THEN Ok((CHOOSE m \in RESOURCE_MAPPER : m.key = <<namespace, version>>).cls)
    ELSE Ok("BaseResource")

\* SweetpayClient._get_resource_cls(namespace, version)
get_resource_cls(namespace, version) ==
    IF \E m \in RESOURCE_MAPPER : m.key = <<namespace, version>>
    THEN Ok((CHOOSE m \in RESOURCE_MAPPER : m.key = <<namespace, version>>).cls)
    ELSE Err("ValueError")

\* A path handed to validates as one argument.
PathArg(p) == [t |-> "path", p |-> p]

\* sweetpay.validates(*args) up to the decorator it returns: the class and
\* the path the decorator will register a function with, or the exception.
validates(args) ==
    IF Len(args) = 1
    THEN LET r == get_resource_cls(NoneV, NoneV)
         IN IF r.ok THEN [ok |-> TRUE, cls |-> r.val, path |-> args[1].p] ELSE r
    ELSE IF Len(args) = 3
    THEN LET r == get_resource_cls(args[1], args[2])
         IN IF r.ok THEN [ok |-> TRUE, cls |-> r.val, path |-> args[3].p] ELSE r
    ELSE Err("TypeError")

\* The paths registered in the runs that follow registration alone.
RegisterPaths == {<<>>, <<Key("a")>>}

\* The argument lists validates is called with: a path; a namespace, a
\* version and a path; and lists of no, two and four arguments.
ValidatesArgs ==
    {<<PathArg(p)>> : p \in RegisterPaths}
    \cup {<<k[1], k[2], PathArg(p)>> :
            k \in {<<Str("subscription"), Num(1)>>, <<Str("creditcheck"), Num(2)>>,
                   <<NoneV, NoneV>>, <<Str("invalid"), Num(1)>>,
                   <<Str("subscription"), Num(10)>>, <<Str("creditcheck"), Num(1)>>},
            p \in RegisterPaths}
    \cup {<<>>,
          <<Str("subscription"), PathArg(<<>>)>>,
          <<Str("subscription"), Num(1), PathArg(<<>>), Num(1)>>}

InitRegister ==
    /\ call = [fn |-> "validates"]
    /\ ret = Pending
    /\ mockdata = [f \in {} |-> NoneV]
    /\ mockexc = [f \in {} |-> NoneV]
    /\ scopes = <<>>
    /\ RegistryEmpty
    /\ use_validators = TRUE
    /\ last = [op |-> "none"]

\* @sweetpay.validates(*args) on the function fn.
CallValidates(args, fn) ==
    /\ call.fn = "validates"
    /\ LET r == validates(args)
       IN IF r.ok
          THEN /\ Entries(validators) < MaxEntries
               /\ RegisterValidator(r.cls, r.path, fn)
               /\ last' = [op |-> "validates", args |-> args, fn |-> fn,
                           raised |-> ""]
          ELSE /\ UNCHANGED <<validators, dictpath>>
               /\ last' = [op |-> "validates", args |-> args, fn |-> fn,
                           raised |-> r.err]
    /\ UNCHANGED <<call, ret, mockdata, mockexc, scopes, use_validators>>

\* cls.clear_validators() between registrations.
RegisterClear ==
    /\ call.fn = "validates"
    /\ \E cls \in Classes : ClearValidators(cls)

NextRegister ==
    \/ \E args \in ValidatesArgs, fn \in Fns : CallValidates(args, fn)
    \/ RegisterClear

SpecRegister == InitRegister /\ [][NextRegister]_vars

\* Registration before the call under check.
ValidateRegister ==
    /\ call.fn = "validate_data"
    /\ ret = Pending
    /\ Entries(validators) < MaxEntries
    /\ \E cls \in Classes, path \in Paths, fn \in Fns :
          /\ RegisterValidator(cls, path, fn)
          /\ last' = [op |-> "validates", cls |-> cls, path |-> path, fn |-> fn]
    /\ UNCHANGED <<call, ret, mockdata, mockexc, scopes, use_validators>>

\* cls.clear_validators() before the call under check.
ValidateClear ==
    /\ call.fn = "validate_data"
    /\ ret = Pending
    /\ \E cls \in Classes : ClearValidators(cls)

\* cls.validate_data(data)
CallValidateData ==
    /\ call.fn = "validate_data"
    /\ ret = Pending
    /\ LET r == validate_data(validators, dictpath, call.cls, call.data)
       IN ret' = [kind |-> "done", out |-> r.out, orig |-> r.orig,
                  steps |-> r.steps]
    /\ UNCHANGED <<call, facadeVars>>

NextValidate == ValidateRegister \/ ValidateClear \/ CallValidateData

SpecValidate == InitValidate /\ [][NextValidate]_vars

-----------------------------------------------------------------------------
(* The resource facade: base.py BaseResource.make_request, post_request,   *)
(* is_mocked and mock_resource.                                            *)

\* BaseResource.is_mocked
is_mocked(f) == mockexc[f] # NoneV \/ mockdata[f] # NoneV

\* The dict mock_resource stores in self.mockdata.
MockData(cfg) ==
    [t |-> "mockdata", code |-> cfg.code, data |-> cfg.data,
     response |-> cfg.response, status |-> cfg.status]

\* A request that ends before there is an envelope.
NoEnvelope(out, connector, canned) ==
    [out |-> out, connector |-> connector, steps |-> <<>>, canned |-> canned,
     env |-> NoneV, mapped |-> NoneV]

\* Mutant: the validators run on an empty body too.
FinishRequest_ValidatesEmptyBody(f, respcls, connector) ==
    IF use_validators
    THEN LET v == validate_data(validators, dictpath, f, respcls.data)
             validated == [respcls EXCEPT !.data = v.out.value]
         IN IF v.out.kind = "raise"
            THEN [out |-> v.out, connector |-> connector, steps |-> v.steps,
                  canned |-> v.orig, env |-> respcls, mapped |-> NoneV]
            ELSE [out |-> check_for_errors(validated), connector |-> connector,
                  steps |-> v.steps, canned |-> v.orig, env |-> respcls,
                  mapped |-> validated]
    ELSE [out |-> check_for_errors(respcls), connector |-> connector,
          steps |-> <<>>, canned |-> respcls.data, env |-> respcls,
          mapped |-> respcls]

\* Mutant: the validators run whatever use_validators says.
FinishRequest_AlwaysValidates(f, respcls, connector) ==
    IF Truthy(respcls.data)
    THEN LET v == validate_data(validators, dictpath, f, respcls.data)
             validated == [respcls EXCEPT !.data = v.out.value]
         IN IF v.out.kind = "raise"
            THEN [out |-> v.out, connector |-> connector, steps |-> v.steps,
                  canned |-> v.orig, env |-> respcls, mapped |-> NoneV]
            ELSE [out |-> check_for_errors(validated), connector |-> connector,
                  steps |-> v.steps, canned |-> v.orig, env |-> respcls,
                  mapped |-> validated]
    ELSE [out |-> check_for_errors(respcls), connector |-> connector,
          steps |-> <<>>, canned |-> respcls.data, env |-> respcls,
          mapped |-> respcls]

\* Mutant: the status is derived again from the body the validators left.
FinishRequest_StatusRecomputed(f, respcls, connector) ==
    IF Truthy(respcls.data) /\ use_validators
    THEN LET v == validate_data(validators, dictpath, f, respcls.data)
             validated == post_request([respcls EXCEPT !.data = v.out.value])
         IN IF v.out.kind = "raise"
            THEN [out |-> v.out, connector |-> connector, steps |-> v.steps,
                  canned |-> v.orig, env |-> respcls, mapped |-> NoneV]
            ELSE [out |-> check_for_errors(validated), connector |-> connector,
                  steps |-> v.steps, canned |-> v.orig, env |-> respcls,
                  mapped |-> validated]
    ELSE [out |-> check_for_errors(post_request(respcls)), connector |-> connector,
          steps |-> <<>>, canned |-> respcls.data, env |-> respcls,
          mapped |-> post_request(respcls)]

\* The tail of make_request: validate the data when there is any and the
\* facade uses validators, then check for errors. canned is the content the
\* object respcls.data names has afterwards, env the envelope as it was
\* before the validators, mapped the envelope handed to check_for_errors
\* (None when a validator raised).
FinishRequest(f, respcls, connector) ==
    IF Truthy(respcls.data) /\ use_validators
    THEN LET v == validate_data(validators, dictpath, f, respcls.data)
             validated == [respcls EXCEPT !.data = v.out.value]
         IN IF v.out.kind = "raise"
            THEN [out |-> v.out, connector |-> connector, steps |-> v.steps,
                  canned |-> v.orig, env |-> respcls, mapped |-> NoneV]
            ELSE [out |-> check_for_errors(validated), connector |-> connector,
                  steps |-> v.steps, canned |-> v.orig, env |-> respcls,
                  mapped |-> validated]
    ELSE [out |-> check_for_errors(respcls), connector |-> connector,
          steps |-> <<>>, canned |-> respcls.data, env |-> respcls,
          mapped |-> respcls]

\* Mutant: the canned envelope is looked at before the canned exception.
make_request_DataBeforeExc(f, method, params, transport) ==
    IF is_mocked(f)
    THEN IF mockdata[f] # NoneV
         THEN FinishRequest(f, ResponseClass(mockdata[f].response, mockdata[f].code,
                                             mockdata[f].data, mockdata[f].status), 0)
         ELSE NoEnvelope([kind |-> "raise", cls |-> "mockexc", obj |-> mockexc[f]],
                         0, NoneV)
    ELSE LET r == SweetpayConnectorMakeRequest(method, params, transport)
         IN IF r.out.kind = "raise"
            THEN NoEnvelope(r.out, 1, NoneV)
            ELSE FinishRequest(f, post_request(r.out.value), 1)

\* Mutant: the mock is ignored and the connector is always called.
make_request_NeverMocked(f, method, params, transport) ==
    LET r == SweetpayConnectorMakeRequest(method, params, transport)
    IN IF r.out.kind = "raise"
       THEN NoEnvelope(r.out, 1, NoneV)
       ELSE FinishRequest(f, post_request(r.out.value), 1)

\* Mutant: a request that timed out is sent a second time.
make_request_RetryOnTimeout(f, method, params, transport) ==
    IF is_mocked(f)
    THEN IF Truthy(mockexc[f])
         THEN NoEnvelope([kind |-> "raise", cls |-> "mockexc", obj |-> mockexc[f]],
                         0, mockdata[f].data)
         ELSE FinishRequest(f, ResponseClass(mockdata[f].response, mockdata[f].code,
                                             mockdata[f].data, mockdata[f].status), 0)
    ELSE LET r == SweetpayConnectorMakeRequest(method, params, transport)
         IN IF r.out.kind = "raise"
            THEN NoEnvelope(r.out, IF r.out.cls = "TimeoutError" THEN 2 ELSE 1, NoneV)
            ELSE FinishRequest(f, post_request(r.out.value), 1)

\* BaseResource.make_request(url, method, **params) on facade f, with what
\* the transport does if it is reached: the outcome, the number of calls of
\* the connector, the turns of the validator loop, and the content of the
\* canned data object afterwards.
make_request(f, method, params, transport) ==
    IF is_mocked(f)
    THEN IF Truthy(mockexc[f])
         THEN NoEnvelope([kind |-> "raise", cls |-> "mockexc", obj |-> mockexc[f]],
                         0, mockdata[f].data)
         ELSE FinishRequest(f, ResponseClass(mockdata[f].response, mockdata[f].code,
                                             mockdata[f].data, mockdata[f].status), 0)
    ELSE LET r == SweetpayConnectorMakeRequest(method, params, transport)
         IN IF r.out.kind = "raise"
            THEN NoEnvelope(r.out, 1, NoneV)
            ELSE FinishRequest(f, post_request(r.out.value), 1)

\* At most MaxScopes mock_resource() with-blocks are open at a time.
MaxScopes == 2

\* At most MaxRegistered validators are registered while facades are in use.
MaxRegistered == 1

\* The canned envelopes given to mock_resource(): nothing, or code 200 and
\* status "OK" with a response handle and one of two bodies.
CannedEnvelopes ==
    {[code |-> NoneV, data |-> NoneV, response |-> NoneV, status |-> NoneV]}
    \cup
    [code : {Num(200)}, status : {Str("OK")}, response : {Num(123)},
     data : {Dict([a |-> Dict([b |-> Str("the value")])]),
             Dict([a |-> Str("2017-01-01T00:00:00")])}]

\* The arguments of mock_resource(raises, code, data, response, status).
MockConfigs ==
    {[raises |-> x, code |-> c.code, data |-> c.data, response |-> c.response,
      status |-> c.status] : x \in {NoneV, Obj("exc")}, c \in CannedEnvelopes}

\* What the transport does for a facade request.
FacadeTransports ==
    {[kind |-> "timeout", exc |-> Obj("requests.Timeout")]}
    \cup
    [kind : {"response"}, resp : {Obj("response")},
     status_code : {Num(200), Num(404)},
     json : {Err("ValueError"), Ok(Str("OK")), Ok(Str("SOME_STATUS")),
             Ok(Dict([status |-> Str("OK"), a |-> Dict([b |-> Str("the value")])]))}]

\* The state after SweetpayClient(...) has built its facades and
\* clear_validators() has emptied the registry (as the tests' setup does).
Init ==
    /\ call = Idle
    /\ ret = Pending
    /\ mockdata = [f \in Facades |-> NoneV]
    /\ mockexc = [f \in Facades |-> NoneV]
    /\ scopes = <<>>
    /\ RegistryEmpty
    /\ use_validators \in BOOLEAN
    /\ last = [op |-> "none"]

\* The scopes of facade f lose their hold on the facade's mock state: what
\* they were entered with is in the mock state no longer, and nothing after
\* the yield reads it.
Superseded(stack, f) ==
    [i \in DOMAIN stack |->
        IF stack[i].f = f
        THEN [stack[i] EXCEPT !.live = FALSE, !.cfg = NoneV]
        ELSE stack[i]]

\* with facade.mock_resource(**cfg): up to the yield.
EnterMock(f, cfg) ==
    /\ Len(scopes) < MaxScopes
    /\ mockexc' = [mockexc EXCEPT ![f] = cfg.raises]
    /\ mockdata' = [mockdata EXCEPT ![f] = MockData(cfg)]
    /\ scopes' = Append(Superseded(scopes, f), [f |-> f, cfg |-> cfg, live |-> TRUE])
    /\ last' = [op |-> "enter", f |-> f]
    /\ UNCHANGED <<call, ret, validators, dictpath, use_validators>>

\* The body of the innermost with-block completes: the generator resumes
\* after the yield.
ExitMock ==
    /\ scopes # <<>>
    /\ LET top == scopes[Len(scopes)]
       IN /\ mockdata' = [mockdata EXCEPT ![top.f] = NoneV]
          /\ mockexc' = [mockexc EXCEPT ![top.f] = NoneV]
          /\ scopes' = Superseded(SubSeq(scopes, 1, Len(scopes) - 1), top.f)
          /\ last' = [op |-> "exit", f |-> top.f, how |-> "normal"]
    /\ UNCHANGED <<call, ret, validators, dictpath, use_validators>>

\* The body of the innermost with-block raises: the exception is thrown into
\* the generator at the yield, which has no try/finally around it, so the
\* statements after the yield do not run.
ExitMockByException ==
    /\ scopes # <<>>
    /\ LET top == scopes[Len(scopes)]
       IN /\ scopes' = SubSeq(scopes, 1, Len(scopes) - 1)
          /\ last' = [op |-> "exit", f |-> top.f, how |-> "exception"]
    /\ UNCHANGED <<call, ret, mockdata, mockexc, validators, dictpath,
                   use_validators>>

\* The configuration of the scope of f that is in force, if there is one.
LiveScopes(f) == {i \in DOMAIN scopes : scopes[i].f = f /\ scopes[i].live}

\* Mutant: a canned envelope is used up by the operation it answers.
RecordRequest_Unmocks(f, r) ==
    /\ last' = [op |-> "request", f |-> f, mocked |-> is_mocked(f),
                live |-> {scopes[i].cfg : i \in LiveScopes(f)},
                before |-> IF mockdata[f] = NoneV THEN NoneV
                           ELSE mockdata[f].data,
                out |-> r.out, connector |-> r.connector,
                steps |-> r.steps, env |-> r.env, mapped |-> r.mapped]
    /\ mockdata' = IF mockexc[f] # NoneV THEN mockdata
                   ELSE [mockdata EXCEPT ![f] = NoneV]

\* What an operation of facade f leaves behind once make_request has ended
\* with r: the record of the call, and the canned data object as the
\* validators rewrote it.
RecordRequest(f, r) ==
    /\ last' = [op |-> "request", f |-> f, mocked |-> is_mocked(f),
                live |-> {scopes[i].cfg : i \in LiveScopes(f)},
                before |-> IF mockdata[f] = NoneV THEN NoneV
                           ELSE mockdata[f].data,
                out |-> r.out, connector |-> r.connector,
                steps |-> r.steps, env |-> r.env, mapped |-> r.mapped]
    /\ mockdata' = IF mockdata[f] = NoneV THEN mockdata
                   ELSE [mockdata EXCEPT ![f].data = r.canned]

\* An operation of facade f (create, query, regret, ...): each builds its URL
\* and calls make_request.
Request(f, method, params, transport) ==
    /\ RecordRequest(f, make_request(f, method, params, transport))
    /\ UNCHANGED <<call, ret, mockexc, scopes, validators, dictpath,
                   use_validators>>

\* sweetpay.validates(...)(func) while facades are in use.
Validates(cls, path, fn) ==
    /\ Entries(validators) < MaxRegistered
    /\ RegisterValidator(cls, path, fn)
    /\ last' = [op |-> "validates"]
    /\ UNCHANGED <<call, ret, mockdata, mockexc, scopes, use_validators>>

\* What a request is made with: the HTTP method and the parameters.
RequestKinds ==
    {[method |-> "GET", params |-> "none"],
     [method |-> "POST", params |-> "encodable"],
     [method |-> "POST", params |-> "unencodable"]}

\* A mocked facade reaches neither the encoder nor the transport, and
\* parameters the encoder rejects do not reach the transport, so one choice
\* of what is not reached stands for all.
RequestInputs(f) ==
    IF is_mocked(f)
    THEN {<<[method |-> "GET", params |-> "none"],
            [kind |-> "timeout", exc |-> Obj("requests.Timeout")]>>}
    ELSE {in \in RequestKinds \X FacadeTransports :
             in[1].params = "unencodable" => in[2].kind = "timeout"}

\* The program's steps: the with-blocks and operations of the facades, the
\* registrations, and clear_validators() of the module and of the classes
\* of the facades.
Next ==
    \/ \E f \in Facades, cfg \in MockConfigs : EnterMock(f, cfg)
    \/ ExitMock
    \/ ExitMockByException
    \/ \E f \in Facades : \E in \in RequestInputs(f) :
          Request(f, in[1].method, in[1].params, in[2])
    \/ \E cls \in Classes, path \in FacadePaths, fn \in Fns : Validates(cls, path, fn)
    \/ \E cls \in Facades \cup {"BaseResource"} : ClearValidators(cls)

Spec == Init /\ [][Next]_vars

-----------------------------------------------------------------------------
(* Claims about the error mappers (SpecMapper) *)

MapperDone == call.fn = "mapper" /\ ret.kind = "done"

\* The decision table of the specification, section 4.3.
TableClass(code) ==
    CASE code = Num(400) -> "BadDataError"
      [] code = Num(401) -> "UnauthorizedError"
      [] code = Num(404) -> "NotFoundError"
      [] code = Num(405) -> "MethodNotAllowedError"
      [] code = Num(422) -> "InvalidParameterError"
      [] code = Num(500) -> "InternalServerError"
      [] code = Num(502) -> "ProxyError"
      [] code = Num(503) -> "UnderMaintenanceError"
      [] OTHER           -> "SweetpayError"

\* The status the envelope handed to the mapper has: read from the body by
\* Resource._check_for_errors, the envelope's own field for check_for_errors.
GivenStatus ==
    IF ret.variant = "Resource"
    THEN IF call.data.t = "dict" /\ call.data.d["status"] # Absent
         THEN call.data.d["status"] ELSE NoneV
    ELSE call.status

\* C1: both error mappers raise, for every code other than 200, the class of
\* the decision table (the generic SweetpayError for a code the table does
\* not name), never return, and the error's code is the code given.
C1_MapperTotalOnNon200 ==
    (MapperDone /\ call.code # Num(200)) =>
        /\ ret.out.kind = "raise"
        /\ ret.out.cls = TableClass(call.code)
        /\ ret.out.code = call.code

C1_Witness ==
    /\ MapperDone
    /\ ret.variant = "BaseResource"
    /\ call.code = Num(502)
    /\ ret.out.kind = "raise"
    /\ ret.out.cls = "ProxyError"

\* C2: for code 200 and status "OK" the mapper raises nothing and returns the
\* data it was given, unchanged.
C2_OkReturnsDataUnchanged ==
    (MapperDone /\ call.code = Num(200) /\ GivenStatus = Str("OK")) =>
        /\ ret.out.kind = "return"
        /\ ret.variant = "Resource" => ret.out.value = call.data
        /\ ret.variant = "BaseResource" =>
              /\ ret.out.value.data = call.data
              /\ ret.out.value.code = call.code
              /\ ret.out.value.status = call.status
              /\ ret.out.value.response = call.response

C2_Witness ==
    /\ MapperDone
    /\ ret.variant = "Resource"
    /\ call.code = Num(200)
    /\ call.data = Dict([status |-> Str("OK"), a |-> Str("the value")])
    /\ ret.out = [kind |-> "return", value |-> call.data]

\* C3: for code 200 and a status S other than "OK" the mapper raises
\* FailureStatusError with status S, and whatever it returns has code 200 and
\* status "OK".
C3_NotOkRaisesFailureStatus ==
    MapperDone =>
        /\ (call.code = Num(200) /\ GivenStatus # Str("OK")) =>
              /\ ret.out.kind = "raise"
              /\ ret.out.cls = "FailureStatusError"
              /\ ret.out.status = GivenStatus
        /\ ret.out.kind = "return" =>
              (call.code = Num(200) /\ GivenStatus = Str("OK"))

C3_Witness ==
    /\ MapperDone
    /\ ret.variant = "BaseResource"
    /\ call.code = Num(200)
    /\ call.status = Str("SOME_STATUS")
    /\ ret.out.kind = "raise"
    /\ ret.out.cls = "FailureStatusError"
    /\ ret.out.status = Str("SOME_STATUS")

\* Data no status can be read from: anything but a mapping, or a mapping
\* without a "status" key.
NoStatusData(data) == data.t # "dict" \/ data.d["status"] = Absent

\* C4: Resource._check_for_errors with code 200 and data no status can be
\* read from raises FailureStatusError whose status is None.
C4_NoStatusRaisesWithNone ==
    (MapperDone /\ ret.variant = "Resource" /\ call.code = Num(200)
        /\ NoStatusData(call.data)) =>
        /\ ret.out.kind = "raise"
        /\ ret.out.cls = "FailureStatusError"
        /\ ret.out.status = NoneV

C4_Witness ==
    /\ MapperDone
    /\ ret.variant = "Resource"
    /\ call.code = Num(200)
    /\ call.data = Str("OK")
    /\ ret.out.kind = "raise"
    /\ ret.out.status = NoneV

\* C5: an error raised by a mapper carries the code, the data and the raw
\* response of the envelope it was raised for, and no underlying cause.
C5_ErrorCarriesContext ==
    (MapperDone /\ ret.out.kind = "raise") =>
        /\ ret.out.cls \in SweetpayErrors
        /\ ret.out.code = call.code
        /\ ret.out.data = call.data
        /\ ret.out.response = call.response
        /\ ret.out.exc = NoneV

C5_Witness ==
    /\ MapperDone
    /\ ret.variant = "Resource"
    /\ call.code = Num(404)
    /\ call.response = Obj("response")
    /\ call.data = Dict([error |-> Str("SOME_ERROR")])
    /\ ret.out.kind = "raise"
    /\ ret.out.response = Obj("response")
    /\ ret.out.data = call.data

-----------------------------------------------------------------------------
(* Claims about the connectors (SpecConn) *)

ConnSent == call.fn = "connector" /\ ret.kind = "done" /\ ret.sent

\* What the connector contract asks of a request that reached the transport.
ConnContract ==
    /\ call.transport.kind = "timeout" =>
          ret.out = [kind |-> "raise", cls |-> "TimeoutError", data |-> NoneV,
                     response |-> NoneV, code |-> NoneV, status |-> NoneV,
                     exc |-> call.transport.exc]
    /\ call.transport.kind = "request_error" =>
          ret.out = [kind |-> "raise", cls |-> "RequestError", data |-> NoneV,
                     response |-> NoneV, code |-> NoneV, status |-> NoneV,
                     exc |-> call.transport.exc]
    /\ call.transport.kind = "response" => ret.out.kind = "return"

\* C6: in each of the three connector variants a transport timeout surfaces
\* as TimeoutError and any other transport exception as RequestError, with
\* code, status and response None and exc the transport exception, and a
\* response never makes the connector raise, whatever its HTTP code.
C6_TransportErrorsTyped == ConnSent => ConnContract

\* The same contract for the two connectors of base.py and connector.py alone.
C6_HoldsOutsideBaseClient ==
    (ConnSent /\ ret.variant # "BaseClient") => ConnContract

-----------------------------------------------------------------------------
(* Claims about mock scopes (Spec) *)

\* The last step was an operation of a facade.
Requested == last.op = "request"

\* The configurations a request can have been made under that carry a canned
\* envelope of code 200 and status "OK" and no exception.
CannedOk(cfg) ==
    /\ cfg # NoneV
    /\ cfg.raises = NoneV
    /\ cfg.code = Num(200)
    /\ cfg.status = Str("OK")

\* The envelope an operation returns for configuration cfg with the data d.
CannedEnvelope(cfg, d) ==
    Return(ResponseClass(cfg.response, cfg.code, d, cfg.status))

\* The exceptions a registered transform can raise.
TransformErrors == {"TypeError", "ValueError"}

C8_ExitAlwaysResets ==
    last.op = "exit" =>
        /\ mockdata[last.f] = NoneV
        /\ mockexc[last.f] = NoneV
        /\ ~is_mocked(last.f)

\* The reset as it happens when the body of the scope completes.
C8_HoldsOnNormalExit ==
    (last.op = "exit" /\ last.how = "normal") =>
        /\ mockdata[last.f] = NoneV
        /\ mockexc[last.f] = NoneV

\* C9: an operation made while the configuration of a scope entered with
\* raises=E is in force raises E itself, calls no connector and runs no
\* validator, whatever canned code, data, status and response came with E.
C9_RaisesCannedException ==
    Requested =>
        \A cfg \in last.live :
            Truthy(cfg.raises) =>
                /\ last.out = [kind |-> "raise", cls |-> "mockexc",
                               obj |-> cfg.raises]
                /\ last.connector = 0
                /\ last.steps = <<>>
                /\ mockdata[last.f].data = last.before

\* E is raised although canned data came with it that a registered validator
\* would rewrite.
C9_Witness ==
    /\ Requested
    /\ last.out.kind = "raise"
    /\ last.out.cls = "mockexc"
    /\ use_validators
    /\ \E cfg \in last.live :
          /\ cfg.raises = Obj("exc")
          /\ last.out.obj = cfg.raises
          /\ cfg.code = Num(200)
          /\ Truthy(cfg.data)
          /\ LET v == validate_data(validators, dictpath, last.f, cfg.data)
             IN \E i \in DOMAIN v.steps : v.steps[i].how = "applied"

-----------------------------------------------------------------------------
(* Claims about the validators (SpecValidate) *)

ValidateDone == call.fn = "validate_data" /\ ret.kind = "done"

IsPrefix(p, q) == Len(p) <= Len(q) /\ SubSeq(q, 1, Len(p)) = p

\* The places of a body that are looked at: every path of up to two keys or
\* indices.
ProbeElems == {Key(k) : k \in Keys} \cup {Idx(i) : i \in 0..2}

ProbePaths ==
    {<<>>} \cup {<<e>> : e \in ProbeElems}
           \cup {<<e1, e2>> : e1 \in ProbeElems, e2 \in ProbeElems}

\* The places that lie neither on the way to path nor under it.
Besides(path) == {q \in ProbePaths : ~IsPrefix(q, path) /\ ~IsPrefix(path, q)}

\* C10: the loop of validate_data takes the chained entries in order, each
\* on the body the one before left; for every entry whose path resolves in
\* that body (and whose transform returns), the body afterwards has
\* transform(value) at exactly that path and what it had before at every
\* place besides it; the body returned is the one the last entry left.
C10_ResolvedPathReplaced ==
    ValidateDone =>
        LET chain == ChainedValidators(validators, call.cls)
            n == Len(ret.steps)
        IN /\ n <= Len(chain)
           /\ ret.out.kind = "return" =>
                 /\ n = Len(chain)
                 /\ ret.out.value = IF n = 0 THEN call.data
                                    ELSE ret.steps[n].after
           /\ \A i \in 1..n :
                 LET s == ret.steps[i]
                     got == getfromdict(s.before, s.path)
                 IN /\ s.fn = chain[i]
                    /\ s.path = dictpath[s.fn]
                    /\ s.before = IF i = 1 THEN call.data
                                  ELSE ret.steps[i - 1].after
                    /\ (got.ok /\ Processor(s.fn, got.val).ok) =>
                          /\ s.how = "applied"
                          /\ getfromdict(s.after, s.path)
                                = Ok(Processor(s.fn, got.val).val)
                          /\ \A q \in Besides(s.path) :
                                getfromdict(s.after, q) = getfromdict(s.before, q)

\* A value two levels down is replaced in a body that has other fields.
C10_Witness ==
    /\ ValidateDone
    /\ ret.out.kind = "return"
    /\ \E i \in DOMAIN ret.steps :
          LET s == ret.steps[i]
          IN /\ s.how = "applied"
             /\ Len(s.path) = 2
             /\ s.after # s.before
             /\ getfromdict(s.after, s.path) = Ok(Str("changed value"))
             /\ getfromdict(s.before, <<Key("status")>>) = Ok(Str("OK"))
             /\ getfromdict(s.after, <<Key("status")>>) = Ok(Str("OK"))

\* The turns of the loop whose path does not resolve in the body they find.
Unresolved(s) == ~getfromdict(s.before, s.path).ok

\* C11: every entry whose path does not resolve in the body (a missing key,
\* a container of the wrong type, a sequence index out of range) is skipped:
\* its transform is not called, nothing is raised and the body stays as it
\* was.
C11_UnresolvedPathSkipped ==
    ValidateDone =>
        \A i \in DOMAIN ret.steps :
            Unresolved(ret.steps[i]) =>
                /\ ret.steps[i].how = "skipped"
                /\ ret.steps[i].after = ret.steps[i].before
                /\ "arg" \notin DOMAIN ret.steps[i]

\* The same for the paths that fail on a missing key or on a container of
\* the wrong type.
C11_HoldsForKeyAndTypeErrors ==
    ValidateDone =>
        \A i \in DOMAIN ret.steps :
            (/\ Unresolved(ret.steps[i])
             /\ getfromdict(ret.steps[i].before, ret.steps[i].path).err
                    \in {"KeyError", "TypeError"}) =>
                /\ ret.steps[i].how = "skipped"
                /\ ret.steps[i].after = ret.steps[i].before
                /\ "arg" \notin DOMAIN ret.steps[i]

\* No _validators attribute holds a validator for the class of the call or
\* for all resources.
OtherKindsOnly ==
    \A o \in Classes :
        /\ validators[o].d[call.cls] = <<>>
        /\ validators[o].d["BaseResource"] = <<>>

\* The call came right after the registration of a validator for the class
\* of the call or for all resources, and ran its loop to the end.
RegisteredForCall ==
    /\ ValidateDone
    /\ last.op = "validates"
    /\ last.cls \in {call.cls, "BaseResource"}
    /\ ret.out.kind = "return"

\* The validator just registered took its turn in the loop.
LastRegisteredRan ==
    \E i \in DOMAIN ret.steps :
        ret.steps[i].fn = last.fn /\ ret.steps[i].path = last.path

\* C12: a validator registered for one resource kind takes part in the
\* validation of the responses of that kind and of no other kind, and a
\* validator registered for all resources takes part in the validation of
\* the responses of every resource kind.
C12_ValidatorScoping ==
    /\ (ValidateDone /\ OtherKindsOnly) =>
          ret.steps = <<>> /\ ret.out = Return(call.data)
    /\ RegisteredForCall => LastRegisteredRan

\* The same for a resource class that has not been given a _validators
\* attribute of its own by cls.clear_validators().
C12_HoldsWhileInherited ==
    /\ (ValidateDone /\ OtherKindsOnly) =>
          ret.steps = <<>> /\ ret.out = Return(call.data)
    /\ (RegisteredForCall /\ ~validators[call.cls].own) => LastRegisteredRan

\* C15: after clear_validators, invoked on whichever class, and until a new
\* registration, validate_data returns every body unchanged for every
\* resource kind, and no validator takes a turn.
C15_ClearRemovesEverything ==
    (ValidateDone /\ last.op = "clear_validators") =>
        /\ ret.steps = <<>>
        /\ ret.out = Return(call.data)

\* The same when every class still shares the _validators attribute of
\* BaseResource, as it is after clear_validators has only ever been invoked
\* on BaseResource.
C15_HoldsForBaseResource ==
    (/\ ValidateDone
     /\ last.op = "clear_validators"
     /\ \A c \in ResourceClasses : ~validators[c].own) =>
        /\ ret.steps = <<>>
        /\ ret.out = Return(call.data)

\* The functions the class of the call finds registered: those of its own
\* kind in the order of their registration, then those for all resources in
\* the order of theirs (validates appends to the list of the kind).
InOrder ==
    ClassValidators(validators, call.cls)[call.cls]
        \o ClassValidators(validators, call.cls)["BaseResource"]

Reverse(seq) == [i \in 1..Len(seq) |-> seq[Len(seq) + 1 - i]]

\* Neither path leads to or through the place of the other.
Independent(p, q) == ~IsPrefix(p, q) /\ ~IsPrefix(q, p)

\* The turns of the loop are on paths that are independent of one another.
AllIndependent ==
    \A i, j \in DOMAIN ret.steps :
        i # j => Independent(ret.steps[i].path, ret.steps[j].path)

\* What validate_data returns when the loop takes the functions fns in turn.
LoopOutcome(fns) ==
    LET st == ValidateLoop([cur |-> call.data, orig |-> call.data,
                            aliased |-> TRUE, raised |-> "", steps |-> <<>>],
                           fns, dictpath)
    IN IF st.raised = "" THEN Return(st.cur)
       ELSE [kind |-> "raise", cls |-> st.raised]

\* C13: the entries take their turns in a fixed order, those of the class's
\* own kind in registration order and then those for all resources in
\* registration order; an entry is handed a value other than the one the
\* body came with at its path only when an earlier entry that was applied
\* has the same path or one of the two paths is a prefix of the other; and
\* entries on independent paths give the same final body when they are
\* taken in the opposite order.
C13_ValidatorOrder ==
    ValidateDone =>
        /\ \A i \in DOMAIN ret.steps : ret.steps[i].fn = InOrder[i]
        /\ ret.out.kind = "return" => Len(ret.steps) = Len(InOrder)
        /\ \A j \in DOMAIN ret.steps :
              LET s == ret.steps[j]
              IN ("arg" \in DOMAIN s
                  /\ getfromdict(call.data, s.path) # Ok(s.arg)) =>
                     \E i \in 1..(j - 1) :
                         /\ ret.steps[i].how = "applied"
                         /\ ~Independent(ret.steps[i].path, s.path)
        /\ (ret.out.kind = "return" /\ AllIndependent) =>
              LoopOutcome(Reverse(InOrder)) = ret.out

\* A validator for all resources and, registered after it, one of the
\* class's own kind: the one of the own kind runs first, and both are
\* applied, on independent paths.
C13_Witness ==
    /\ ValidateDone
    /\ ret.out.kind = "return"
    /\ Len(ret.steps) = 2
    /\ AllIndependent
    /\ ret.steps[1].how = "applied"
    /\ ret.steps[2].how = "applied"
    /\ ret.steps[1].after # ret.steps[1].before
    /\ ret.steps[2].after # ret.steps[2].before
    /\ ClassValidators(validators, call.cls)[call.cls] = <<ret.steps[1].fn>>
    /\ ClassValidators(validators, call.cls)["BaseResource"] = <<ret.steps[2].fn>>
    /\ last.op = "validates"
    /\ last.cls = call.cls

-----------------------------------------------------------------------------
(* Claims about the stages of a facade operation (Spec) *)

\* The last step was an operation that got an envelope, from the mock state
\* or from the connector.
GotEnvelope == Requested /\ last.env # NoneV

\* The functions in line for the responses of the facade of the last step.
Chain == ChainedValidators(validators, last.f)

\* What C14 says of one turn of the loop on an empty path: the function is
\* handed the whole body, and the body becomes what it returns.
EmptyPathTurn(s) ==
    /\ s.how # "skipped"
    /\ s.arg = s.before
    /\ Processor(s.fn, s.before).ok =>
          s.how = "applied" /\ s.after = Processor(s.fn, s.before).val

\* C14 as stated: for any response body, a validator registered with an
\* empty path is handed the whole body and the body returned to the caller
\* is what the transform returns. Stated for a facade that uses validators
\* and has that validator first in line.
C14_EmptyPathAnyBody ==
    (/\ GotEnvelope
     /\ use_validators
     /\ Chain # <<>>
     /\ dictpath[Chain[1]] = <<>>) =>
        /\ last.steps # <<>>
        /\ last.steps[1].before = last.env.data
        /\ EmptyPathTurn(last.steps[1])

\* C14, amended: for any response body that is not empty (not None, {}, [],
\* "" or 0) and a facade that uses validators, every validator with an empty
\* path that takes its turn is handed the whole body as the validators
\* before it left it, and the body becomes what the transform returns; the
\* first in line is handed the body of the envelope, and the data that
\* goes on to the error mapper is the body the last turn left. For an empty
\* body no validator is called and the body stays as it is.
C14_EmptyPathNonEmptyBody ==
    GotEnvelope =>
        IF use_validators /\ Truthy(last.env.data)
        THEN /\ \A i \in DOMAIN last.steps :
                    last.steps[i].path = <<>> => EmptyPathTurn(last.steps[i])
             /\ Chain # <<>> =>
                    /\ last.steps # <<>>
                    /\ last.steps[1].before = last.env.data
             /\ (last.mapped # NoneV /\ last.steps # <<>>) =>
                    last.mapped.data = last.steps[Len(last.steps)].after
        ELSE /\ last.steps = <<>>
             /\ last.mapped.data = last.env.data

\* A body that came from the connector is replaced as a whole.
C14_Witness ==
    /\ GotEnvelope
    /\ last.connector = 1
    /\ use_validators
    /\ Len(last.steps) = 1
    /\ last.steps[1].path = <<>>
    /\ last.steps[1].how = "applied"
    /\ last.steps[1].arg = last.env.data
    /\ last.env.data.t = "dict"
    /\ last.mapped.data = Str("changed value")
    /\ last.out.kind = "return"
    /\ last.out.value.data = Str("changed value")

-----------------------------------------------------------------------------
(* Claims about registration (SpecRegister) *)

\* The (namespace, version) pairs that name a resource.
KnownResources ==
    {<<Str("subscription"), Num(1)>>, <<Str("creditcheck"), Num(2)>>,
     <<NoneV, NoneV>>}

\* The exception C16 expects of a call of validates, "" for none.
ExpectedRaise(args) ==
    IF Len(args) \notin {1, 3} THEN "TypeError"
    ELSE IF Len(args) = 3 /\ <<args[1], args[2]>> \notin KnownResources
         THEN "ValueError"
         ELSE ""

\* C16: validates(namespace, version, path) with a pair that names no
\* resource raises ValueError, validates with an argument count other than
\* 1 or 3 raises TypeError, and either leaves the registry as it was.
C16_BadRegistrationRaises ==
    [][(last'.op = "validates" /\ ExpectedRaise(last'.args) # "") =>
          /\ last'.raised = ExpectedRaise(last'.args)
          /\ validators' = validators
          /\ dictpath' = dictpath]_vars

\* A registration is refused for its pair while the registry holds a
\* validator.
C16_Witness ==
    /\ last.op = "validates"
    /\ last.raised = "ValueError"
    /\ last.args[1] = Str("subscription")
    /\ last.args[2] = Num(10)
    /\ Entries(validators) > 0

\* C17: the stages run in the order connector, error mapper, validators: an
\* envelope the error mapper does not accept is raised as its error, with
\* the body as it came as the error's data, and no transform is called on
\* it.
C17_MapperBeforeValidators ==
    (GotEnvelope /\ check_for_errors(last.env).kind = "raise") =>
        /\ \A i \in DOMAIN last.steps : "arg" \notin DOMAIN last.steps[i]
        /\ last.out = check_for_errors(last.env)

\* What holds of the order instead: the validators run first, on every
\* envelope with a body, and the error mapper is handed what they leave.
C17_ValidatorsBeforeMapper ==
    (GotEnvelope /\ last.mapped # NoneV) =>
        last.out = check_for_errors(last.mapped)

-----------------------------------------------------------------------------
(* Claims about status extraction (SpecConn) *)

\* post_request has run on the envelope the connector returned.
Posted == call.fn = "connector" /\ ret.kind = "posted"

\* The body the connector decoded.
DecodedBody == ret.out.value.data

\* C18: after a real connector call, a decoded body that is a mapping with
\* a "status" key gives that value as the status and is kept; a bare string
\* becomes the status and the body becomes None; any other body (None, a
\* list, a number, a mapping without "status") gives the status None and is
\* kept. Code and response are left as they are.
C18_StatusExtraction ==
    Posted =>
        /\ ret.post.code = ret.out.value.code
        /\ ret.post.response = ret.out.value.response
        /\ CASE DecodedBody.t = "dict" /\ DecodedBody.d["status"] # Absent ->
                    /\ ret.post.status = DecodedBody.d["status"]
                    /\ ret.post.data = DecodedBody
             [] DecodedBody.t = "str" ->
                    /\ ret.post.status = DecodedBody
                    /\ ret.post.data = NoneV
             [] OTHER ->
                    /\ ret.post.status = NoneV
                    /\ ret.post.data = DecodedBody

\* A bare string has become the status.
C18_Witness ==
    /\ Posted
    /\ call.transport.kind = "response"
    /\ call.transport.json = Ok(Str("OK"))
    /\ ret.post.status = Str("OK")
    /\ ret.post.data = NoneV

-----------------------------------------------------------------------------
(* Claims about the envelope (Spec) *)

\* The status a body gives: its "status" entry for a mapping that has one,
\* the string itself for a bare string, None otherwise.
DerivedStatus(body) ==
    CASE body.t = "dict" /\ body.d["status"] # Absent -> body.d["status"]
      [] body.t = "str" -> body
      [] OTHER -> NoneV

\* C19 as stated: the status of every envelope that reaches the error
\* mapper is the value derived from the body the envelope has then.
C19_StatusDerivedFromBody ==
    (GotEnvelope /\ last.mapped # NoneV /\ last.mapped.data # NoneV) =>
        last.mapped.status = DerivedStatus(last.mapped.data)

\* C19, amended: the status of an envelope that comes from a real connector
\* call is the value post_request derives from the body as the connector
\* decoded it (a bare string becomes the status and leaves the body None);
\* the status of an envelope of a mock scope is the canned status as given,
\* whatever the canned data; and the validators, which may rewrite or
\* replace the body, leave the status as it was, so the envelope that
\* reaches the error mapper or is returned has the status it had before
\* them.
C19_StatusSetBeforeValidators ==
    GotEnvelope =>
        /\ last.connector = 1 =>
              \/ last.env.status = DerivedStatus(last.env.data)
              \/ last.env.data = NoneV /\ last.env.status.t = "str"
        /\ \A cfg \in last.live : last.env.status = cfg.status
        /\ last.mapped # NoneV => last.mapped.status = last.env.status
        /\ last.out.kind = "return" => last.out.value.status = last.env.status

\* An empty-path validator has replaced the body of a real response and the
\* envelope returned keeps the status of the body that came.
C19_Witness ==
    /\ GotEnvelope
    /\ last.connector = 1
    /\ last.env.status = Str("OK")
    /\ last.env.data.t = "dict"
    /\ last.out.kind = "return"
    /\ last.out.value.data = Str("changed value")
    /\ last.out.value.status = Str("OK")

-----------------------------------------------------------------------------
(* Claims about the "error" fallback of the error mappers (SpecMapper) *)

\* The value under the body's "error" key, None when the key is absent.
ErrorEntry(data) ==
    IF data.d["error"] # Absent THEN data.d["error"] ELSE NoneV

\* The mapper has built an exception for an envelope without a status whose
\* body is a mapping.
RaisedWithoutStatus ==
    /\ MapperDone
    /\ ret.out.kind = "raise"
    /\ GivenStatus = NoneV
    /\ call.data.t = "dict"

\* C20 as stated: whenever the error mapper builds an exception for an
\* envelope whose status is None and whose body is mapping-like, the
\* exception's status is the value under the body's "error" key (None when
\* absent), for every code for which an exception is raised, 200 included.
C20_ErrorKeyFallback ==
    RaisedWithoutStatus => ret.out.status = ErrorEntry(call.data)

\* What the code does: BaseResource.check_for_errors applies the fallback
\* for the codes other than 200 only and raises FailureStatusError for 200
\* with the status None, and Resource._check_for_errors never reads the
\* "error" key.
C20_HoldsInBaseResourceOutside200 ==
    RaisedWithoutStatus =>
        ret.out.status = IF ret.variant = "BaseResource" /\ call.code # Num(200)
                         THEN ErrorEntry(call.data)
                         ELSE NoneV

-----------------------------------------------------------------------------
(* Claims about the connector's request side (SpecConn) *)

\* C21 as stated: a connector request whose method is not exactly "GET" or
\* "POST" is rejected with ValueError before any transport request is
\* issued, and only the two exact values reach the transport.
C21_OnlyExactMethods ==
    (call.fn = "connector" /\ ret.kind \in {"done", "encoded"}
        /\ ret.variant \in {"SweetpayConnector", "Connector"}) =>
        /\ (ret.kind = "encoded" \/ ret.variant = "SweetpayConnector") =>
              (call.method \notin {"GET", "POST"} =>
                  /\ ret.out = [kind |-> "raise", cls |-> "ValueError"]
                  /\ ~ret.sent)
        /\ (ret.variant = "SweetpayConnector" /\ ret.sent) =>
              ret.wire \in {"GET", "POST"}

\* What the code does: Connector.encode_data compares the method as given,
\* while SweetpayConnector.make_request compares method.upper(), rejects
\* with ValueError before the transport what is not GET or POST in any
\* case of letters, and hands the transport the upper-case name.
C21_HoldsUpToCase ==
    (call.fn = "connector" /\ ret.kind \in {"done", "encoded"}) =>
        /\ ret.kind = "encoded" =>
              (call.method \notin {"GET", "POST"} =>
                  /\ ret.out = [kind |-> "raise", cls |-> "ValueError"]
                  /\ ~ret.sent)
        /\ ret.variant = "SweetpayConnector" =>
              /\ Upper(call.method) \notin {"GET", "POST"} =>
                    /\ ret.out = [kind |-> "raise", cls |-> "ValueError"]
                    /\ ~ret.sent
              /\ ret.sent => ret.wire = Upper(call.method)
                             /\ ret.wire \in {"GET", "POST"}

-----------------------------------------------------------------------------
(* Claims about the request encoder (SpecEncode) *)

EncodeDone == call.fn = "encoder" /\ ret.kind = "done"

\* C22: the encoder writes a datetime as its ISO-8601 string, always with
\* the time part (also at midnight: the datetime rule comes before the date
\* rule), a date as YYYY-MM-DD, and a Decimal as the string of its exact
\* digits, trailing zeros included, never as a number; an object of any
\* other class is rejected by the default encoder with TypeError.
C22_EncoderSpecialCases ==
    EncodeDone =>
        /\ call.obj.t = "datetime" =>
              /\ ret.out.kind = "return"
              /\ ret.out.value.t = "str"
              /\ Len(ret.out.value.s) \in {19, 26}
              /\ call.obj.us = 0 <=> Len(ret.out.value.s) = 19
        /\ call.obj = DateTime(2017, 1, 5, 9, 5, 7, 0) =>
              ret.out = Return(Str("2017-01-05T09:05:07"))
        /\ call.obj = DateTime(2017, 12, 31, 0, 0, 0, 0) =>
              ret.out = Return(Str("2017-12-31T00:00:00"))
        /\ call.obj = DateTime(1999, 12, 31, 23, 59, 59, 1500) =>
              ret.out = Return(Str("1999-12-31T23:59:59.001500"))
        /\ call.obj.t = "date" =>
              /\ ret.out.kind = "return"
              /\ ret.out.value.t = "str"
              /\ Len(ret.out.value.s) = 10
        /\ call.obj = Date(2017, 1, 5) => ret.out = Return(Str("2017-01-05"))
        /\ call.obj = Date(1999, 12, 31) => ret.out = Return(Str("1999-12-31"))
        /\ call.obj.t = "decimal" =>
              /\ ret.out.kind = "return"
              /\ ret.out.value.t = "str"
        /\ call.obj = Decimal(1050, -2) => ret.out = Return(Str("10.50"))
        /\ call.obj = Decimal(105, -1) => ret.out = Return(Str("10.5"))
        /\ call.obj = Decimal(5, -3) => ret.out = Return(Str("0.005"))
        /\ call.obj = Decimal(0, -2) => ret.out = Return(Str("0.00"))
        /\ call.obj = Decimal(12345, 0) => ret.out = Return(Str("12345"))
        /\ call.obj.t = "obj" =>
              ret.out = [kind |-> "raise", cls |-> "TypeError"]

\* A datetime at midnight has been encoded with its time part, and
\* Decimal("10.50") is among the values tried.
C22_Witness ==
    /\ EncodeDone
    /\ call.obj = DateTime(2017, 12, 31, 0, 0, 0, 0)
    /\ ret.out = Return(Str("2017-12-31T00:00:00"))
    /\ Decimal(1050, -2) \in EncoderValues

\* A response has been received whose body is not JSON.
Undecodable ==
    /\ call.fn = "connector"
    /\ call.transport.kind = "response"
    /\ ~call.transport.json.ok
    /\ ret.kind \in {"done", "posted", "decoded"}
    /\ ret.sent

\* What the caller gets for an envelope of the given code without body and
\* status: FailureStatusError for 200, the error of the table otherwise.
NoBodyError(code, resp) ==
    [kind |-> "raise",
     cls |-> IF code = Num(200) THEN "FailureStatusError" ELSE TableClass(code),
     data |-> NoneV, response |-> resp, code |-> code, status |-> NoneV,
     exc |-> NoneV]

\* The outcome for a body that is not JSON in the pipeline the facades use:
\* SweetpayConnector.make_request, post_request, check_for_errors.
DegradesToNone ==
    /\ (ret.kind = "done" /\ ret.variant = "SweetpayConnector") =>
          ret.out = Return(ResponseClass(call.transport.resp,
                                         call.transport.status_code, NoneV, NoneV))
    /\ ret.kind = "posted" =>
          /\ ret.post.data = NoneV
          /\ ret.post.status = NoneV
          /\ ret.checked = NoBodyError(call.transport.status_code,
                                       call.transport.resp)

\* C23 as stated: a body that cannot be decoded never makes the connector
\* raise; every connector gives the body None and the status None, so that
\* the caller gets FailureStatusError with status None and data None for
\* code 200 and the error of the decision table for any other code.
C23_DecodeFailureGivesNone ==
    Undecodable =>
        /\ DegradesToNone
        /\ ret.kind = "decoded" => ret.out = Return(NoneV)

\* C23, amended: a body that cannot be decoded never makes a connector
\* raise. SweetpayConnector.make_request, which the facades use, returns the
\* envelope with body None and status None, post_request leaves both None,
\* and the caller gets FailureStatusError with status None and data None
\* for code 200 and the error of the decision table for any other code.
\* Connector.decode_data returns the undecoded text itself as the body.
C23_DecodeFailureDegrades ==
    Undecodable =>
        /\ DegradesToNone
        /\ ret.kind = "decoded" => ret.out = Return(RawText)

\* A response of code 200 whose body is not JSON has gone through
\* post_request and the error mapper and ended as FailureStatusError.
C23_Witness ==
    /\ Undecodable
    /\ ret.kind = "posted"
    /\ call.transport.status_code = Num(200)
    /\ ret.checked.kind = "raise"
    /\ ret.checked.cls = "FailureStatusError"
    /\ ret.checked.status = NoneV

-----------------------------------------------------------------------------
(* Claims about the pipeline of a facade operation (Spec) *)

\* The last step was an operation of a facade that was not mocked.
RealRequest == Requested /\ ~last.mocked

\* C24: one invocation of an operation of a facade that is not mocked calls
\* the connector exactly once. When that call raises (a transport failure,
\* or a rejected method or parameters) there is no envelope and the
\* operation raises what the connector raised; when the response has a
\* code other than 200 or a status other than "OK" the operation raises;
\* and what the operation returns is the envelope of that one request, of
\* code 200 and status "OK".
C24_OneRequestNoRetry ==
    RealRequest =>
        /\ last.connector = 1
        /\ last.env = NoneV => last.out.kind = "raise"
        /\ last.env # NoneV =>
              /\ last.env.code # Num(200) \/ last.env.status # Str("OK") =>
                    last.out.kind = "raise"
              /\ last.out.kind = "return" =>
                    /\ last.out.value.code = last.env.code
                    /\ last.out.value.response = last.env.response
                    /\ last.out.value.status = last.env.status
                    /\ last.env.code = Num(200)
                    /\ last.env.status = Str("OK")
              /\ (last.mapped # NoneV /\ last.out.kind = "raise") =>
                    /\ last.out.cls = IF last.env.code = Num(200)
                                      THEN "FailureStatusError"
                                      ELSE TableClass(last.env.code)
                    /\ last.out.code = last.env.code
                    /\ last.out.response = last.env.response

\* A request that was not mocked has timed out and raised TimeoutError
\* after one call of the connector.
C24_Witness ==
    /\ RealRequest
    /\ last.connector = 1
    /\ last.out.kind = "raise"
    /\ last.out.cls = "TimeoutError"

\* C25: on a client constructed with use_validators=False no validator is
\* invoked for a response of a facade, real or mocked: the loop takes no
\* turn, the envelope reaches the error mapper as it was received, the data
\* returned is the body as received, and canned data is left as it was.
\* With use_validators=True (the default) the loop runs over the validators
\* registered for the facade whenever the body is not empty, the first
\* registered one first.
C25_UseValidatorsFlag ==
    Requested =>
        /\ ~use_validators =>
              /\ last.steps = <<>>
              /\ GotEnvelope =>
                    /\ last.mapped = last.env
                    /\ last.out.kind = "return" => last.out.value = last.env
              /\ last.mocked => mockdata[last.f].data = last.before
        /\ (use_validators /\ GotEnvelope /\ Truthy(last.env.data)
                /\ Chain # <<>>) =>
              /\ last.steps # <<>>
              /\ last.steps[1].fn = Head(Chain)
              /\ last.steps[1].path = dictpath[Head(Chain)]

\* With use_validators=False an operation has returned a non-empty body
\* untouched although a validator is registered for the facade at a path
\* the body has.
C25_Witness ==
    /\ Requested
    /\ ~use_validators
    /\ Chain # <<>>
    /\ GotEnvelope
    /\ last.out.kind = "return"
    /\ last.out.value.data.t = "dict"
    /\ getfromdict(last.out.value.data, dictpath[Head(Chain)]).ok

-----------------------------------------------------------------------------
(* Claims about registering one function twice (SpecValidate) *)

\* A step registers function g, which is registered already, under a path
\* other than the one of its entry.
RegisteredTwice(g) ==
    /\ g \in Registered(validators)
    /\ Entries(validators') = Entries(validators) + 1
    /\ last'.op = "validates"
    /\ last'.fn = g
    /\ last'.path # dictpath[g]

\* C26 as stated: every registration adds an entry that keeps the path it
\* was registered with, so the entry of a function registered under P1 is
\* still applied at P1 after the function is registered again under P2.
C26_EachEntryKeepsItsPath ==
    [][\A g \in Fns : RegisteredTwice(g) => dictpath'[g] = dictpath[g]]_vars

\* What the code does: the path is an attribute of the function, which the
\* second registration overwrites, so validate_data applies every entry of
\* one function at one path, the one registered last.
C26_HoldsLastPathWins ==
    (ValidateDone /\ ret.out.kind = "return") =>
        \A i \in DOMAIN ret.steps :
            ret.steps[i].path = dictpath[ret.steps[i].fn]

-----------------------------------------------------------------------------
(* Claims about nested mock scopes (Spec) *)

\* A with-block of facade f is open.
ScopeOpen(f) == \E i \in DOMAIN scopes : scopes[i].f = f

\* Entering a scope puts its configuration in force, in place of the one of
\* a scope of the same facade that is open already.
EnterReplaces ==
    last.op = "enter" =>
        LET top == scopes[Len(scopes)]
        IN /\ top.f = last.f
           /\ LiveScopes(last.f) = {Len(scopes)}
           /\ mockdata[last.f] = MockData(top.cfg)
           /\ mockexc[last.f] = top.cfg.raises

\* C27 as stated: at most one mock configuration is in force per facade;
\* entering a scope while another scope of the facade is open replaces the
\* configuration, and the exit of any scope puts the facade back in normal
\* mode (mockdata and mockexc None), also when an enclosing scope is still
\* open, so that the rest of the enclosing scope runs against the real
\* connector.
C27_AnyExitUnmocks ==
    /\ EnterReplaces
    /\ last.op = "exit" =>
          /\ mockdata[last.f] = NoneV
          /\ mockexc[last.f] = NoneV
    /\ (Requested /\ LiveScopes(last.f) = {}) =>
          /\ ~last.mocked
          /\ last.connector = 1

\* What the code does: the same, for the scopes whose body completes; a
\* scope left by an exception resets nothing (see C8).
C27_HoldsForCompletedScopes ==
    /\ EnterReplaces
    /\ (last.op = "exit" /\ last.how = "normal") =>
          /\ mockdata[last.f] = NoneV
          /\ mockexc[last.f] = NoneV
          /\ ~is_mocked(last.f)
    /\ (Requested /\ ~last.mocked) => last.connector = 1

-----------------------------------------------------------------------------
(* Claims about repeated calls in one mock scope (Spec) *)

\* Two operations in a row on the same facade under the same configuration
\* in force, a canned envelope of code 200 and status "OK".
SecondCallInScope ==
    /\ last.op = "request"
    /\ last'.op = "request"
    /\ last'.f = last.f
    /\ last.mocked
    /\ last'.mocked
    /\ last.live # {}
    /\ last'.live = last.live
    /\ \A cfg \in last.live : CannedOk(cfg)

\* C28 as stated: within one mock scope every call returns the canned data
\* with each validator applied exactly once, so a second call returns what
\* the first call returned; the transforms are not applied to the result of
\* an earlier call.
C28_SecondCallSameResult ==
    [][SecondCallInScope => last'.out = last.out]_vars

\* What the code does: setindict rewrites the canned data object in place,
\* and the second call starts from the data as the first call left it.
C28_HoldsSecondCallStartsFromFirst ==
    [][SecondCallInScope => last'.before = mockdata[last.f].data]_vars

-----------------------------------------------------------------------------
(* Claims about what an operation leaves alone (Spec) *)

\* Whether facade f is mocked after the step.
IsMockedNext(f) == mockexc'[f] # NoneV \/ mockdata'[f] # NoneV

\* What an operation of a facade leaves as it was.
OperationFrame ==
    /\ validators' = validators
    /\ dictpath' = dictpath
    /\ use_validators' = use_validators
    /\ scopes' = scopes
    /\ mockexc' = mockexc
    /\ \A f \in Facades :
          /\ IsMockedNext(f) = is_mocked(f)
          /\ mockdata[f] # NoneV =>
                /\ mockdata'[f].code = mockdata[f].code
                /\ mockdata'[f].status = mockdata[f].status
                /\ mockdata'[f].response = mockdata[f].response

-----------------------------------------------------------------------------
(* Claims about a bare string as the body of a real response (Spec) *)

\* The last step was an operation of a facade that is not mocked, answered
\* with code 200 and a body that is the JSON string s.
BareString200(s) ==
    /\ RealRequest
    /\ GotEnvelope
    /\ last.env = ResponseClass(last.env.response, Num(200), NoneV, Str(s))

\* C30: a real response of code 200 whose decoded body is the bare string
\* "OK" is returned as an envelope with status "OK" and data None, and no
\* validator is applied, whatever is registered; a bare string other than
\* "OK" with code 200 raises FailureStatusError whose status is the string
\* and whose data is None.
C30_BareStringBody ==
    /\ BareString200("OK") =>
          /\ last.out = Return(last.env)
          /\ last.out.value.status = Str("OK")
          /\ last.out.value.data = NoneV
          /\ last.steps = <<>>
    /\ BareString200("SOME_STATUS") =>
          /\ last.out.kind = "raise"
          /\ last.out.cls = "FailureStatusError"
          /\ last.out.status = Str("SOME_STATUS")
          /\ last.out.data = NoneV
          /\ last.out.code = Num(200)
          /\ last.steps = <<>>

\* The body "OK" of a real response of code 200 has been returned as the
\* status, with no data, while a validator with the empty path is
\* registered for the facade and validators are in use.
C30_Witness ==
    /\ BareString200("OK")
    /\ last.out.kind = "return"
    /\ last.out.value.status = Str("OK")
    /\ last.out.value.data = NoneV
    /\ use_validators
    /\ Chain # <<>>
    /\ dictpath[Head(Chain)] = <<>>

====
